---- MODULE Spec2Model ----
(***************************************************************************)
(* Market-data gateway: the caching fetch layer (fetchBirdseyeKlines of    *)
(* the compiled Birdseye library, fetchMarketData / fetchBirdseyeData of   *)
(* the TypeScript Birdseye library) and the per-symbol polling            *)
(* subscription registry (addSubscription / removeSubscription /          *)
(* startPolling).  Time is the value of Date.now() in milliseconds.       *)
(***************************************************************************)
EXTENDS Integers, Sequences, FiniteSets, TLC

VARIABLES
    now,            \* Date.now()
    cache,          \* `cache` of the compiled Birdseye library: key -> {data, timestamp}
    calls,          \* running fetchBirdseyeKlines invocations
    responseCache,  \* `responseCache` of the TypeScript library
    mdCalls,        \* running fetchMarketData invocations made by a route
    subscriptions,  \* Map symbol -> Set of subscription objects
    activePolling,  \* Set of symbols that have a poll loop
    chains,         \* the `poll` closures created by startPolling
    lastEmit,       \* the emitMarketData pass of the latest registry step: symbol, candle, receivers
    started,        \* number of route fetches, poll loops and socket subscriptions started so far
    lib,            \* the build of lib/market-data the process has loaded
    activeSymbols,  \* `activeSymbols` of the compiled library, in insertion order
    updateInterval, \* `updateInterval`: the handle of the interval timer, or null
    timers,         \* the interval timers that have not been cleared
    ticks,          \* the interval callbacks that are suspended at an await
    fanout,         \* the polls the latest step completed, with their emitMarketData passes
    sockets,        \* socket.io connections with the subscriptions their handlers close over
    http,           \* the GET /market-data request each route handler serves, and its reply
    resolved,       \* the latest use of a symbol resolver: input, result, result of resolving that
    binanceWs,      \* `binanceWs` of the Binance library: the current WebSocket, or null
    webSockets,     \* the WebSocket objects the Binance library has created
    reconnects      \* number of pending setTimeout(connectBinanceWebSocket, 5000)

fetchVars == <<cache, calls, responseCache, mdCalls>>
regVars == <<subscriptions, activePolling, chains, lastEmit>>
jsVars == <<activeSymbols, updateInterval, timers, ticks, fanout, sockets>>
wsVars == <<binanceWs, webSockets, reconnects>>
routeVars == <<http, resolved, wsVars>>
vars == <<now, cache, calls, responseCache, mdCalls, subscriptions, activePolling, chains, lastEmit, started, lib,
          activeSymbols, updateInterval, timers, ticks, fanout, sockets, http, resolved,
          binanceWs, webSockets, reconnects>>

----------------------------------------------------------------------------
(* Bounds of the model *)

MaxCalls == 2
MaxSlack == 4000
MaxChains == 2
MaxSockets == 2

(* Program constants *)

CACHE_TTL == 5 * 60 * 1000
MD_CACHE_TTL == 60 * 1000
retries == 3
POLL_INTERVAL == 30000
DefaultRetryAfter == "60"

(* The clock of the fetch specifications stops after the first expiry plus the retry waits,
   the clock of the registry when the second poll of a loop is due *)

MaxTime == CACHE_TTL + MaxSlack
MdMaxTime == MD_CACHE_TTL + MaxSlack
RegMaxTime == POLL_INTERVAL
JsMaxTime == 2 * POLL_INTERVAL
ConcMaxTime == 3000
RouteMaxTime == ConcMaxTime
RateMaxTime == retries * 60 * 1000

----------------------------------------------------------------------------
(* Symbols, intervals, limits offered by the callers *)

SOL_ADDRESS == "So11111111111111111111111111111111111111112"

RawSymbols == {"SOL", SOL_ADDRESS, "SOLUSDT"}
MdRawSymbols == {"SOLUSDT", "XYZ"}
Requests == {<<"1h", 2>>, <<"1m", 1>>}
KlinesCallIds == {"k1"}
MdCallIds == {"m1"}

null == "<null>"

(* the WebSocket objects of the Binance library; binanceWs = null *)
WsIds == 1..MaxSockets
NoSocket == 0
NoWebSocket == [readyState |-> "CLOSED", streams |-> << >>, closeEvent |-> FALSE]

(* the two Birdseye builds of lib/market-data: the compiled one (fetchBirdseyeKlines,
   stale-cache fallback) and the TypeScript one (fetchMarketData, mock fallback) *)
LibJs == "dist/lib/market-data.js"
LibTs == "lib/market-data.ts"

SYMBOL_TO_ADDRESS ==
    [s \in {"SOL", "USDC", "BONK", "JTO", "JUP", "PYTH", "RNDR", "MSOL", "RAY", "ORCA"} |->
        CASE s = "SOL"  -> SOL_ADDRESS
          [] s = "USDC" -> "EPjFWdd5AufqSSqeM2qN1xzybapC8G4wEGGkZwyTDt1v"
          [] s = "BONK" -> "DezXAZ8z7PnrnRJjz3wXBoRgixCa6xjnB7YaB1pPB263"
          [] s = "JTO"  -> "jtojtomepa8beP8AuQc6eXt5FriJwfFMwQx2v2f9mCL"
          [] s = "JUP"  -> "JUPyiwrYJFskUPiHa7hkeR8VUtAeFoSYbKedZNsDvCN"
          [] s = "PYTH" -> "HZ1JovNiVvGrGNiiYvEozEVgZ58xaU3RKwX8eACQBCt3"
          [] s = "RNDR" -> "rndrizKT3MK1iimdxRdWabcF7Zg7AR5T6rJJaLvQKkJ"
          [] s = "MSOL" -> "mSoLzYCxHdYgdzU16g5QSh3i5K3z3KZK7ytfqcJm7So"
          [] s = "RAY"  -> "4k3Dyjzvzp8eMZWUXbBCjEvwSkkk59S5iCNLY3QrkX6R"
          [] s = "ORCA" -> "orcaEKTdK7LKz57vaAYr9QeNsVEPfiu6QeMU1kektZE"]

(* getTokenAddress of the compiled Birdseye library *)
getTokenAddress(symbol) ==
    IF Len(symbol) = 44 \/ Len(symbol) = 43 THEN symbol
    ELSE IF symbol \in DOMAIN SYMBOL_TO_ADDRESS THEN SYMBOL_TO_ADDRESS[symbol]
    ELSE null

(* symbol.replace(/USDT$/, '') *)
StripUSDT(symbol) ==
    IF Len(symbol) >= 4 /\ SubSeq(symbol, Len(symbol) - 3, Len(symbol)) = "USDT"
    THEN SubSeq(symbol, 1, Len(symbol) - 4)
    ELSE symbol

(* getMintAddress of the TypeScript Birdseye library *)
getMintAddress(symbol) ==
    IF Len(symbol) = 44 \/ Len(symbol) = 43 THEN symbol
    ELSE LET baseSymbol == StripUSDT(symbol) IN
         IF baseSymbol \in DOMAIN SYMBOL_TO_ADDRESS THEN SYMBOL_TO_ADDRESS[baseSymbol]
         ELSE null

(* SYMBOL_TO_COINGECKO_ID of the CoinGecko library *)
SYMBOL_TO_COINGECKO_ID ==
    [s \in {"BTC", "ETH", "SOL", "DOGE", "XRP", "ADA", "DOT", "AVAX", "MATIC", "LINK",
         "UNI", "AAVE", "ATOM", "LTC", "BCH", "ALGO", "FIL", "XLM", "VET", "THETA",
         "EOS", "TRX", "XMR", "NEO", "DASH", "ZEC", "ETC", "XTZ", "BNB", "USDT", "USDC",
         "BUSD", "DAI"} |->
        CASE s = "BTC" -> "bitcoin"
          [] s = "ETH" -> "ethereum"
          [] s = "SOL" -> "solana"
          [] s = "DOGE" -> "dogecoin"
          [] s = "XRP" -> "ripple"
          [] s = "ADA" -> "cardano"
          [] s = "DOT" -> "polkadot"
          [] s = "AVAX" -> "avalanche-2"
          [] s = "MATIC" -> "matic-network"
          [] s = "LINK" -> "chainlink"
          [] s = "UNI" -> "uniswap"
          [] s = "AAVE" -> "aave"
          [] s = "ATOM" -> "cosmos"
          [] s = "LTC" -> "litecoin"
          [] s = "BCH" -> "bitcoin-cash"
          [] s = "ALGO" -> "algorand"
          [] s = "FIL" -> "filecoin"
          [] s = "XLM" -> "stellar"
          [] s = "VET" -> "vechain"
          [] s = "THETA" -> "theta-token"
          [] s = "EOS" -> "eos"
          [] s = "TRX" -> "tron"
          [] s = "XMR" -> "monero"
          [] s = "NEO" -> "neo"
          [] s = "DASH" -> "dash"
          [] s = "ZEC" -> "zcash"
          [] s = "ETC" -> "ethereum-classic"
          [] s = "XTZ" -> "tezos"
          [] s = "BNB" -> "binancecoin"
          [] s = "USDT" -> "tether"
          [] s = "USDC" -> "usd-coin"
          [] s = "BUSD" -> "binance-usd"
          [] s = "DAI" -> "dai"]

LowerOf(ch) ==
    CASE ch = "A" -> "a" [] ch = "B" -> "b" [] ch = "C" -> "c" [] ch = "D" -> "d"
      [] ch = "E" -> "e" [] ch = "F" -> "f" [] ch = "G" -> "g" [] ch = "H" -> "h"
      [] ch = "I" -> "i" [] ch = "J" -> "j" [] ch = "K" -> "k" [] ch = "L" -> "l"
      [] ch = "M" -> "m" [] ch = "N" -> "n" [] ch = "O" -> "o" [] ch = "P" -> "p"
      [] ch = "Q" -> "q" [] ch = "R" -> "r" [] ch = "S" -> "s" [] ch = "T" -> "t"
      [] ch = "U" -> "u" [] ch = "V" -> "v" [] ch = "W" -> "w" [] ch = "X" -> "x"
      [] ch = "Y" -> "y" [] ch = "Z" -> "z" [] OTHER -> ch

(* symbol.toLowerCase() *)
RECURSIVE ToLowerCase(_)
ToLowerCase(s) ==
    IF Len(s) = 0 THEN "" ELSE LowerOf(SubSeq(s, 1, 1)) \o ToLowerCase(SubSeq(s, 2, Len(s)))

EndsWith(s, suffix) ==
    Len(s) >= Len(suffix) /\ SubSeq(s, Len(s) - Len(suffix) + 1, Len(s)) = suffix

(* symbol.replace(/USDT$|BUSD$|USD$|USDC$|DAI$/, ''): the leftmost match is the longest
   of the suffixes *)
StripQuote(symbol) ==
    IF EndsWith(symbol, "USDT") \/ EndsWith(symbol, "BUSD") \/ EndsWith(symbol, "USDC")
    THEN SubSeq(symbol, 1, Len(symbol) - 4)
    ELSE IF EndsWith(symbol, "USD") \/ EndsWith(symbol, "DAI")
    THEN SubSeq(symbol, 1, Len(symbol) - 3)
    ELSE symbol

(* variant: only the base asset of a trading pair is looked up *)
getCoinGeckoId_BaseOnly(symbol) ==
    LET baseAsset == StripQuote(symbol) IN
    IF baseAsset \in DOMAIN SYMBOL_TO_COINGECKO_ID THEN SYMBOL_TO_COINGECKO_ID[baseAsset] ELSE null

(* getCoinGeckoId of the CoinGecko library *)
getCoinGeckoId(symbol) ==
    LET coinGeckoIds == { SYMBOL_TO_COINGECKO_ID[k] : k \in DOMAIN SYMBOL_TO_COINGECKO_ID }
        baseAsset == StripQuote(symbol)
    IN  IF ToLowerCase(symbol) \in coinGeckoIds THEN ToLowerCase(symbol)
        ELSE IF symbol \in DOMAIN SYMBOL_TO_COINGECKO_ID THEN SYMBOL_TO_COINGECKO_ID[symbol]
        ELSE IF baseAsset \in DOMAIN SYMBOL_TO_COINGECKO_ID THEN SYMBOL_TO_COINGECKO_ID[baseAsset]
        ELSE null

(* `${tokenAddress}-${interval}-${limit}` *)
CacheKey(tokenAddress, interval, limit) ==
    tokenAddress \o "-" \o interval \o "-" \o ToString(limit)

(* variant: an entry aged exactly CACHE_TTL still counts as fresh *)
IsFresh_Inclusive(entry, t) == (t - entry.timestamp) <= CACHE_TTL

(* (Date.now() - entry.timestamp) < CACHE_TTL *)
IsFresh(entry, t) == (t - entry.timestamp) < CACHE_TTL

(* (Date.now() - entry.timestamp) < CACHE_TTL, TypeScript library (1 minute) *)
MdIsFresh(entry, t) == (t - entry.timestamp) < MD_CACHE_TTL

----------------------------------------------------------------------------
(* Numbers in text *)

DigitVal(ch) ==
    CASE ch = "0" -> 0 [] ch = "1" -> 1 [] ch = "2" -> 2 [] ch = "3" -> 3
      [] ch = "4" -> 4 [] ch = "5" -> 5 [] ch = "6" -> 6 [] ch = "7" -> 7
      [] ch = "8" -> 8 [] ch = "9" -> 9 [] OTHER -> -1

RECURSIVE DigitPrefix(_, _, _)
DigitPrefix(s, i, acc) ==
    IF i > Len(s) \/ DigitVal(SubSeq(s, i, i)) < 0 THEN acc
    ELSE DigitPrefix(s, i + 1, acc * 10 + DigitVal(SubSeq(s, i, i)))

(* parseInt(s, 10) on unsigned text: the leading digits, NaN when there are none *)
ParseInt(s) ==
    IF Len(s) = 0 \/ DigitVal(SubSeq(s, 1, 1)) < 0
    THEN [nan |-> TRUE, val |-> 0]
    ELSE [nan |-> FALSE, val |-> DigitPrefix(s, 1, 0)]

(* parseFloat on the unsigned integer texts the upstream bodies of the model carry *)
ParseFloat(s) == ParseInt(s).val

(* Math.pow(2, attempt) *)
Pow2(n) == IF n = 0 THEN 1 ELSE IF n = 1 THEN 2 ELSE IF n = 2 THEN 4 ELSE 8

(* the delay Node applies to setTimeout(cb, ms): NaN and values below 1 become 1 *)
TimerDelay(ms) == IF ms.nan \/ ms.val < 1 THEN 1 ELSE ms.val

Num(n) == [nan |-> FALSE, val |-> n]
Times1000(x) == [nan |-> x.nan, val |-> x.val * 1000]

----------------------------------------------------------------------------
(* Upstream responses *)

NoHeader == "<absent>"
RetryAfterHeaders == {"1"}

Item(t, px) == [unixTime |-> t, open |-> px, high |-> px, low |-> px, close |-> px, volume |-> "7"]
ItemsA == <<Item(1, "10")>>
ItemsB == <<Item(2, "20")>>

Bodies ==
    { [parses |-> FALSE, success |-> FALSE, hasData |-> FALSE, itemsIsArray |-> FALSE, items |-> <<>>],
      [parses |-> TRUE,  success |-> TRUE,  hasData |-> FALSE, itemsIsArray |-> FALSE, items |-> <<>>],
      [parses |-> TRUE,  success |-> FALSE, hasData |-> TRUE,  itemsIsArray |-> TRUE,  items |-> ItemsA],
      [parses |-> TRUE,  success |-> TRUE,  hasData |-> TRUE,  itemsIsArray |-> TRUE,  items |-> <<>>],
      [parses |-> TRUE,  success |-> TRUE,  hasData |-> TRUE,  itemsIsArray |-> TRUE,  items |-> ItemsA],
      [parses |-> TRUE,  success |-> TRUE,  hasData |-> TRUE,  itemsIsArray |-> TRUE,  items |-> ItemsB] }

NoBody == [parses |-> FALSE, success |-> FALSE, hasData |-> FALSE, itemsIsArray |-> FALSE, items |-> <<>>]

Responses ==
    { [rejects |-> TRUE, status |-> 0, retryAfter |-> NoHeader, body |-> NoBody] }
    \cup { [rejects |-> FALSE, status |-> 429, retryAfter |-> h, body |-> NoBody] : h \in RetryAfterHeaders }
    \cup { [rejects |-> FALSE, status |-> 500, retryAfter |-> NoHeader, body |-> NoBody] }
    \cup { [rejects |-> FALSE, status |-> 200, retryAfter |-> NoHeader, body |-> b] : b \in Bodies }

(* response.ok *)
Ok(resp) == resp.status >= 200 /\ resp.status <= 299

(* variant: the header is not read *)
RetryAfter_IgnoresHeader(resp) == ParseInt(DefaultRetryAfter)

(* parseInt(response.headers.get('Retry-After') || '60', 10) *)
RetryAfter(resp) ==
    ParseInt(IF resp.retryAfter = NoHeader \/ resp.retryAfter = "" THEN DefaultRetryAfter ELSE resp.retryAfter)

(* data.data.items.map(item => ({symbol, timestamp: item.unixTime * 1000, ...})) *)
Transform(items, symbol, interval) ==
    [i \in 1..Len(items) |->
        [symbol |-> symbol,
         timestamp |-> items[i].unixTime * 1000,
         open |-> ParseFloat(items[i].open),
         high |-> ParseFloat(items[i].high),
         low |-> ParseFloat(items[i].low),
         close |-> ParseFloat(items[i].close),
         volume |-> ParseFloat(items[i].volume),
         resolution |-> interval,
         synthetic |-> FALSE]]

----------------------------------------------------------------------------
(* Invocation records *)

NoEmit == [symbol |-> "", candle |-> <<>>, to |-> {}]

NoResult == [status |-> "none", data |-> <<>>, error |-> "", via |-> ""]

IdleCall ==
    [pc |-> "idle", symbol |-> "", interval |-> "", limit |-> 0, attempt |-> 0,
     lastError |-> "", wakeAt |-> 0, after429 |-> FALSE, result |-> NoResult,
     reqs |-> 0, waits |-> 0, startedAt |-> 0, entry0 |-> <<>>]

Returned(data, via) == [status |-> "ok", data |-> data, error |-> "", via |-> via]
Thrown(msg) == [status |-> "error", data |-> <<>>, error |-> msg, via |-> "throw"]

EntryAt(store, key) == IF key \in DOMAIN store THEN <<store[key]>> ELSE <<>>

Put(store, key, entry) == [k \in DOMAIN store \cup {key} |-> IF k = key THEN entry ELSE store[k]]

(* no route request is being served *)
Quiet ==
    /\ \A id \in KlinesCallIds : calls[id].pc = "idle"
    /\ \A id \in MdCallIds : mdCalls[id].pc = "idle"

----------------------------------------------------------------------------
(* fetchBirdseyeKlines(symbol, interval, limit) *)

(* fetch(birdseyeUrl, ...): one upstream request is issued *)
KlinesRequest(c) == [c EXCEPT !.pc = "fetch", !.reqs = c.reqs + 1]

(* variant: the expired entry is not consulted *)
KlinesFallback_NoStale(c, store) ==
    [c EXCEPT !.pc = "done",
              !.result = Thrown(IF c.lastError # "" THEN c.lastError
                                ELSE "Failed to fetch data from Birdseye")]

(* variant: without an entry an empty batch is returned instead of throwing *)
KlinesFallback_EmptyBatch(c, store) ==
    LET cacheKey == CacheKey(getTokenAddress(c.symbol), c.interval, c.limit) IN
    [c EXCEPT !.pc = "done",
              !.result = Returned(IF cacheKey \in DOMAIN store THEN store[cacheKey].data ELSE <<>>,
                                  "stale-cache")]

(* variant: a remembered error is thrown before the cache is consulted *)
KlinesFallback_ErrorFirst(c, store) ==
    LET cacheKey == CacheKey(getTokenAddress(c.symbol), c.interval, c.limit) IN
    IF c.lastError = "" /\ cacheKey \in DOMAIN store
    THEN [c EXCEPT !.pc = "done", !.result = Returned(store[cacheKey].data, "stale-cache")]
    ELSE [c EXCEPT !.pc = "done",
                   !.result = Thrown(IF c.lastError # "" THEN c.lastError
                                     ELSE "Failed to fetch data from Birdseye")]

(* after the retry loop: expired cache as fallback, else throw lastError *)
KlinesFallback(c, store) ==
    LET cacheKey == CacheKey(getTokenAddress(c.symbol), c.interval, c.limit) IN
    IF cacheKey \in DOMAIN store
    THEN [c EXCEPT !.pc = "done", !.result = Returned(store[cacheKey].data, "stale-cache")]
    ELSE [c EXCEPT !.pc = "done",
                   !.result = Thrown(IF c.lastError # "" THEN c.lastError
                                     ELSE "Failed to fetch data from Birdseye")]

(* variant: an attempt answered 429 is not counted *)
KlinesNextAttempt_Free429(c, store) ==
    LET n == IF c.after429 THEN c ELSE [c EXCEPT !.attempt = c.attempt + 1] IN
    IF n.attempt < retries THEN KlinesRequest(n) ELSE KlinesFallback(n, store)

(* for (attempt...; attempt < retries; attempt++): the loop header after an iteration ended *)
KlinesNextAttempt(c, store) ==
    LET n == [c EXCEPT !.attempt = c.attempt + 1] IN
    IF n.attempt < retries THEN KlinesRequest(n) ELSE KlinesFallback(n, store)

(* variant: the same delay after every failed attempt *)
KlinesCatch_FixedDelay(c, msg, store, t) ==
    LET e == [c EXCEPT !.lastError = msg] IN
    IF e.attempt < retries - 1
    THEN [e EXCEPT !.pc = "sleep", !.after429 = FALSE, !.waits = e.waits + 1,
                   !.wakeAt = t + TimerDelay(Num(1000))]
    ELSE KlinesNextAttempt(e, store)

(* catch (error) of one attempt: remember it, back off when attempts remain *)
KlinesCatch(c, msg, store, t) ==
    LET e == [c EXCEPT !.lastError = msg] IN
    IF e.attempt < retries - 1
    THEN [e EXCEPT !.pc = "sleep", !.after429 = FALSE, !.waits = e.waits + 1,
                   !.wakeAt = t + TimerDelay(Num(Pow2(e.attempt) * 1000))]
    ELSE KlinesNextAttempt(e, store)

(* variant: the result of the resolver is not checked *)
KlinesEnter_NoResolveCheck(s, i, l, store, t) ==
    LET tokenAddress == getTokenAddress(s)
        cacheKey == CacheKey(tokenAddress, i, l)
        c == [IdleCall EXCEPT !.symbol = s, !.interval = i, !.limit = l,
                              !.startedAt = t,
                              !.entry0 = IF tokenAddress = null THEN <<>> ELSE EntryAt(store, cacheKey)]
    IN  IF cacheKey \in DOMAIN store /\ IsFresh(store[cacheKey], t)
        THEN [c EXCEPT !.pc = "done", !.result = Returned(store[cacheKey].data, "fresh-cache")]
        ELSE KlinesRequest(c)

(* variant: the cache is looked up under the raw symbol *)
KlinesEnter_RawKey(s, i, l, store, t) ==
    LET tokenAddress == getTokenAddress(s)
        cacheKey == CacheKey(s, i, l)
        c == [IdleCall EXCEPT !.symbol = s, !.interval = i, !.limit = l,
                              !.startedAt = t,
                              !.entry0 = IF tokenAddress = null THEN <<>>
                                         ELSE EntryAt(store, CacheKey(tokenAddress, i, l))]
    IN  IF tokenAddress = null
        THEN [c EXCEPT !.pc = "done",
                       !.result = Thrown("Unsupported symbol: " \o s
                                         \o ". Please use a valid token symbol or address.")]
        ELSE IF cacheKey \in DOMAIN store /\ IsFresh(store[cacheKey], t)
        THEN [c EXCEPT !.pc = "done", !.result = Returned(store[cacheKey].data, "fresh-cache")]
        ELSE KlinesRequest(c)

(* the body of the function up to its first await *)
KlinesEnter(s, i, l, store, t) ==
    LET tokenAddress == getTokenAddress(s)
        cacheKey == CacheKey(tokenAddress, i, l)
        c == [IdleCall EXCEPT !.symbol = s, !.interval = i, !.limit = l,
                              !.startedAt = t,
                              !.entry0 = IF tokenAddress = null THEN <<>> ELSE EntryAt(store, cacheKey)]
    IN  IF tokenAddress = null
        THEN [c EXCEPT !.pc = "done",
                       !.result = Thrown("Unsupported symbol: " \o s
                                         \o ". Please use a valid token symbol or address.")]
        ELSE IF cacheKey \in DOMAIN store /\ IsFresh(store[cacheKey], t)
        THEN [c EXCEPT !.pc = "done", !.result = Returned(store[cacheKey].data, "fresh-cache")]
        ELSE KlinesRequest(c)

(* a route calls fetchBirdseyeKlines; the routes are served one request at a time *)
KlinesCall(id, s, i, l) ==
    /\ lib = LibJs
    /\ Quiet
    /\ started < MaxCalls
    /\ started' = started + 1
    /\ calls' = [calls EXCEPT ![id] = KlinesEnter(s, i, l, cache, now)]
    /\ UNCHANGED <<now, cache, responseCache, mdCalls, regVars, lib, jsVars, routeVars>>

(* the awaited fetch settles: 429, non-2xx, unreadable or invalid body, or candles, which
   are stored under cacheKey; the invocation runs on to its next await or to its end *)
KlinesSettleAt(cacheKey, c, resp, store, t) ==
    IF resp.rejects
    THEN [call |-> KlinesCatch(c, "fetch failed", store, t), store |-> store]
    ELSE IF resp.status = 429
    THEN [call |-> [c EXCEPT !.pc = "sleep", !.after429 = TRUE, !.waits = c.waits + 1,
                             !.wakeAt = t + TimerDelay(Times1000(RetryAfter(resp)))],
          store |-> store]
    ELSE IF ~Ok(resp)
    THEN [call |-> KlinesCatch(c, "Birdseye API error: " \o ToString(resp.status), store, t),
          store |-> store]
    ELSE IF ~resp.body.parses
    THEN [call |-> KlinesCatch(c, "Unexpected token in JSON", store, t), store |-> store]
    ELSE IF ~resp.body.hasData \/ ~resp.body.itemsIsArray
    THEN [call |-> KlinesCatch(c, "Empty or invalid response from Birdseye", store, t),
          store |-> store]
    ELSE LET transformedData == Transform(resp.body.items, c.symbol, c.interval) IN
         [call |-> [c EXCEPT !.pc = "done", !.result = Returned(transformedData, "upstream")],
          store |-> Put(store, cacheKey, [data |-> transformedData, timestamp |-> t])]

(* variant: the batch is stored under the key of the raw symbol *)
KlinesSettle_RawKey(c, resp, store, t) ==
    KlinesSettleAt(CacheKey(c.symbol, c.interval, c.limit), c, resp, store, t)

(* the settle step with the cacheKey the invocation computed on entry *)
KlinesSettle(c, resp, store, t) ==
    KlinesSettleAt(CacheKey(getTokenAddress(c.symbol), c.interval, c.limit), c, resp, store, t)

(* the awaited fetch of a route's invocation settles *)
KlinesRespond(id, resp) ==
    LET r == KlinesSettle(calls[id], resp, cache, now) IN
    /\ calls[id].pc = "fetch"
    /\ calls' = [calls EXCEPT ![id] = r.call]
    /\ cache' = r.store
    /\ UNCHANGED <<now, responseCache, mdCalls, regVars, started, lib, jsVars, routeVars>>

(* the setTimeout of a Retry-After wait or of a backoff fires *)
KlinesWake(id) ==
    /\ calls[id].pc = "sleep"
    /\ now >= calls[id].wakeAt
    /\ calls' = [calls EXCEPT ![id] = KlinesNextAttempt(calls[id], cache)]
    /\ UNCHANGED <<now, cache, responseCache, mdCalls, regVars, started, lib, jsVars, routeVars>>

(* the route consumes the outcome *)
KlinesReturn(id) ==
    /\ calls[id].pc = "done"
    /\ calls' = [calls EXCEPT ![id] = IdleCall]
    /\ UNCHANGED <<now, cache, responseCache, mdCalls, regVars, started, lib, jsVars, routeVars>>

----------------------------------------------------------------------------
(* fetchMarketData(symbol, interval, limit) and fetchBirdseyeData of the TypeScript library *)

(* the time step of generateMockData *)
TimeStep(interval) ==
    CASE interval = "1m" -> 60 * 1000
      [] interval = "5m" -> 5 * 60 * 1000
      [] interval = "15m" -> 15 * 60 * 1000
      [] interval = "1h" -> 60 * 60 * 1000
      [] interval = "4h" -> 4 * 60 * 60 * 1000
      [] interval = "1d" -> 24 * 60 * 60 * 1000
      [] OTHER -> 60 * 60 * 1000

(* the base price of generateMockData, for the symbols whose upper case the model offers *)
BasePrice(symbol) == IF symbol = "SOL" THEN 150 ELSE 10

(* generateMockData: `limit` synthetic candles ending now; rnd stands for the draws of
   Math.random() *)
generateMockData(symbol, interval, limit, t, rnd) ==
    [i \in 1..limit |->
        [symbol |-> symbol,
         timestamp |-> t - (limit - (i - 1) - 1) * TimeStep(interval),
         open |-> BasePrice(symbol),
         high |-> BasePrice(symbol) + rnd,
         low |-> BasePrice(symbol) - rnd,
         close |-> BasePrice(symbol),
         volume |-> BasePrice(symbol) * 1000000,
         resolution |-> interval,
         synthetic |-> TRUE]]

RandomDraws == {0, 1}
PollDraws == {1}

(* fetch(url, ...) inside fetchBirdseyeData *)
MdRequest(c) == [c EXCEPT !.pc = "fetch", !.reqs = c.reqs + 1]

(* fetchMarketData up to its first await *)
MdEnter(s, i, l, store, t) ==
    LET mintAddress == getMintAddress(s)
        cacheKey == CacheKey(mintAddress, i, l)
        c == [IdleCall EXCEPT !.symbol = s, !.interval = i, !.limit = l,
                              !.startedAt = t,
                              !.entry0 = IF mintAddress = null THEN <<>> ELSE EntryAt(store, cacheKey)]
    IN  IF mintAddress = null
        THEN [c EXCEPT !.pc = "done",
                       !.result = Thrown("Unsupported symbol: " \o s
                                         \o ". Please use a valid Solana token symbol or mint address.")]
        ELSE IF cacheKey \in DOMAIN store /\ MdIsFresh(store[cacheKey], t)
        THEN [c EXCEPT !.pc = "done", !.result = Returned(store[cacheKey].data, "fresh-cache")]
        ELSE MdRequest(c)

(* fetchBirdseyeData returned: fetchMarketData caches and returns the candles *)
MdSucceed(c, data, store, t) ==
    [call |-> [c EXCEPT !.pc = "done", !.result = Returned(data, "upstream")],
     store |-> Put(store, CacheKey(getMintAddress(c.symbol), c.interval, c.limit),
                   [data |-> data, timestamp |-> t])]

(* fetchBirdseyeData threw: fetchMarketData falls back to mock data, caches and returns it *)
MdMockFallback(c, store, t, rnd) ==
    LET mockData == generateMockData(c.symbol, c.interval, c.limit, t, rnd) IN
    [call |-> [c EXCEPT !.pc = "done", !.result = Returned(mockData, "mock")],
     store |-> Put(store, CacheKey(getMintAddress(c.symbol), c.interval, c.limit),
                   [data |-> mockData, timestamp |-> t])]

(* catch (error) of one attempt of fetchBirdseyeData *)
BdCatch(c, msg, store, t, rnd) ==
    LET e == [c EXCEPT !.lastError = msg] IN
    IF e.attempt < retries - 1
    THEN [call |-> [e EXCEPT !.pc = "sleep", !.after429 = FALSE,
                             !.wakeAt = t + TimerDelay(Num(Pow2(e.attempt) * 1000))],
          store |-> store]
    ELSE MdMockFallback([e EXCEPT !.attempt = e.attempt + 1], store, t, rnd)

(* the awaited fetch of fetchBirdseyeData settles *)
BdRespond(c, resp, store, t, rnd) ==
    IF resp.rejects THEN BdCatch(c, "fetch failed", store, t, rnd)
    ELSE IF resp.status = 429 /\ c.attempt < retries - 1
    THEN [call |-> [c EXCEPT !.pc = "sleep", !.after429 = TRUE,
                             !.wakeAt = t + TimerDelay(Times1000(RetryAfter(resp)))],
          store |-> store]
    ELSE IF ~Ok(resp)
    THEN BdCatch(c, "Birdseye API error: " \o ToString(resp.status), store, t, rnd)
    ELSE IF ~resp.body.parses
    THEN BdCatch(c, "Unexpected token in JSON", store, t, rnd)
    ELSE IF ~resp.body.success
    THEN BdCatch(c, "Birdseye API returned success=false: No error message", store, t, rnd)
    ELSE IF ~resp.body.hasData \/ ~resp.body.itemsIsArray
    THEN BdCatch(c, "Empty or invalid response from Birdseye", store, t, rnd)
    ELSE MdSucceed(c, Transform(resp.body.items, c.symbol, c.interval), store, t)

(* the setTimeout of a wait inside fetchBirdseyeData fires: next iteration of the loop *)
BdWake(c) == MdRequest([c EXCEPT !.attempt = c.attempt + 1])

(* a route calls fetchMarketData; the routes are served one request at a time *)
MdCall(id, s, i, l) ==
    /\ lib = LibTs
    /\ Quiet
    /\ started < MaxCalls
    /\ started' = started + 1
    /\ mdCalls' = [mdCalls EXCEPT ![id] = MdEnter(s, i, l, responseCache, now)]
    /\ UNCHANGED <<now, cache, calls, responseCache, regVars, lib, jsVars, routeVars>>

MdRespond(id, resp, rnd) ==
    /\ mdCalls[id].pc = "fetch"
    /\ LET r == BdRespond(mdCalls[id], resp, responseCache, now, rnd) IN
       /\ mdCalls' = [mdCalls EXCEPT ![id] = r.call]
       /\ responseCache' = r.store
    /\ UNCHANGED <<now, cache, calls, regVars, started, lib, jsVars, routeVars>>

MdWake(id) ==
    /\ mdCalls[id].pc = "sleep"
    /\ now >= mdCalls[id].wakeAt
    /\ mdCalls' = [mdCalls EXCEPT ![id] = BdWake(mdCalls[id])]
    /\ UNCHANGED <<now, cache, calls, responseCache, regVars, started, lib, jsVars, routeVars>>

MdReturn(id) ==
    /\ mdCalls[id].pc = "done"
    /\ mdCalls' = [mdCalls EXCEPT ![id] = IdleCall]
    /\ UNCHANGED <<now, cache, calls, responseCache, regVars, started, lib, jsVars, routeVars>>

----------------------------------------------------------------------------
(* Subscription registry and poll loop of the TypeScript library *)

RegSymbols == {"SOL", "XYZ"}
Subs == {"a", "b"}
ChainIds == 1..MaxChains

PollResponses ==
    { r \in Responses : r.rejects
                        \/ (r.status = 200 /\ r.body.parses /\ r.body.success /\ r.body.hasData
                            /\ r.body.items = ItemsA) }

FreeChain == [pc |-> "free", symbol |-> "", dueAt |-> 0, call |-> IdleCall]

(* the poll chains of a symbol that have a pending timer or a fetch in flight *)
LiveIn(chs, symbol) == { ch \in ChainIds : chs[ch].pc # "free" /\ chs[ch].symbol = symbol }
Live(symbol) == LiveIn(chains, symbol)

(* subscriptions.get(symbol) || new Set() *)
getSubscriptions(subsMap, symbol) ==
    IF symbol \in DOMAIN subsMap THEN subsMap[symbol] ELSE {}

(* emitMarketData(symbol, data): the callback of every subscription of the symbol *)
emitMarketData(subsMap, symbol, data) ==
    [symbol |-> symbol, candle |-> <<data>>, to |-> getSubscriptions(subsMap, symbol)]

(* poll after `await fetchMarketData(...)`: emit data[0], then setTimeout(poll, POLL_INTERVAL);
   the catch branch schedules the next poll as well *)
PollAfterFetch(chn, subsMap, t, prevEmit) ==
    [chain |-> [pc |-> "timer", symbol |-> chn.symbol,
                dueAt |-> t + TimerDelay(Num(POLL_INTERVAL)), call |-> IdleCall],
     emit |-> IF chn.call.result.status = "ok" /\ Len(chn.call.result.data) > 0
              THEN emitMarketData(subsMap, chn.symbol, chn.call.result.data[1])
              ELSE prevEmit]

(* poll(): only while the symbol has subscriptions, fetchMarketData(symbol, '1m', 1) *)
PollBody(symbol, subsMap, store, t, prevEmit) ==
    IF symbol \notin DOMAIN subsMap
    THEN [chain |-> FreeChain, emit |-> prevEmit]
    ELSE LET c == MdEnter(symbol, "1m", 1, store, t)
             chn == [pc |-> "fetching", symbol |-> symbol, dueAt |-> 0, call |-> c]
         IN  IF c.pc = "done" THEN PollAfterFetch(chn, subsMap, t, prevEmit)
             ELSE [chain |-> chn, emit |-> prevEmit]

(* subscriptions.set(symbol, new Set()) when missing, then .add(subscription) *)
WithSubscription(subsMap, symbol, sub) ==
    [k \in DOMAIN subsMap \cup {symbol} |->
        IF k = symbol THEN getSubscriptions(subsMap, symbol) \cup {sub} ELSE subsMap[k]]

(* subscriptions.get(symbol)?.delete(subscription); the entry is dropped when it is empty *)
WithoutSubscription(subsMap, symbol, sub) ==
    IF symbol \notin DOMAIN subsMap THEN subsMap
    ELSE IF subsMap[symbol] \ {sub} = {}
    THEN [k \in DOMAIN subsMap \ {symbol} |-> subsMap[k]]
    ELSE [subsMap EXCEPT ![symbol] = subsMap[symbol] \ {sub}]

(* variant: the polling mark survives the removal of the last listener *)
PollingAfterRemove_Keeps(polling, subsMap, symbol, sub) == polling

(* activePolling after removeSubscription *)
PollingAfterRemove(polling, subsMap, symbol, sub) ==
    IF symbol \in DOMAIN subsMap /\ subsMap[symbol] \ {sub} = {}
    THEN polling \ {symbol}
    ELSE polling

(* variant: every addSubscription starts a poll loop *)
StartsPolling_Always(polling, symbol) == TRUE

(* whether addSubscription calls startPolling *)
StartsPolling(polling, symbol) == symbol \notin polling

(* addSubscription(symbol, subscription), with startPolling(symbol) and the first poll();
   at most MaxCalls poll loops are started in a run *)
AddSubscription(symbol, sub) ==
    LET subsMap == WithSubscription(subscriptions, symbol, sub) IN
    /\ lib = LibTs
    /\ subscriptions' = subsMap
    /\ IF StartsPolling(activePolling, symbol)
       THEN /\ \E ch \in ChainIds : chains[ch].pc = "free"
            /\ started < MaxCalls
            /\ started' = started + 1
            /\ LET ch == CHOOSE x \in ChainIds :
                            chains[x].pc = "free" /\ \A y \in ChainIds : chains[y].pc = "free" => x <= y
                   r == PollBody(symbol, subsMap, responseCache, now, NoEmit)
               IN  /\ activePolling' = activePolling \cup {symbol}
                   /\ chains' = [chains EXCEPT ![ch] = r.chain]
                   /\ lastEmit' = r.emit
       ELSE /\ lastEmit' = NoEmit
            /\ UNCHANGED <<activePolling, chains, started>>
    /\ UNCHANGED <<now, fetchVars, lib, jsVars, routeVars>>

(* removeSubscription(symbol, subscription) *)
RemoveSubscription(symbol, sub) ==
    /\ lib = LibTs
    /\ subscriptions' = WithoutSubscription(subscriptions, symbol, sub)
    /\ activePolling' = PollingAfterRemove(activePolling, subscriptions, symbol, sub)
    /\ lastEmit' = NoEmit
    /\ UNCHANGED <<now, fetchVars, chains, started, lib, jsVars, routeVars>>

(* the setTimeout(poll, POLL_INTERVAL) of a chain fires *)
PollTimer(ch) ==
    /\ chains[ch].pc = "timer"
    /\ now >= chains[ch].dueAt
    /\ LET r == PollBody(chains[ch].symbol, subscriptions, responseCache, now, NoEmit) IN
       /\ chains' = [chains EXCEPT ![ch] = r.chain]
       /\ lastEmit' = r.emit
    /\ UNCHANGED <<now, fetchVars, subscriptions, activePolling, started, lib, jsVars, routeVars>>

(* the upstream request of a chain's fetchMarketData settles *)
PollRespond(ch, resp, rnd) ==
    /\ chains[ch].pc = "fetching"
    /\ chains[ch].call.pc = "fetch"
    /\ LET r == BdRespond(chains[ch].call, resp, responseCache, now, rnd)
           chn == [chains[ch] EXCEPT !.call = r.call]
           f == PollAfterFetch(chn, subscriptions, now, NoEmit)
       IN  /\ responseCache' = r.store
           /\ IF r.call.pc = "done"
              THEN chains' = [chains EXCEPT ![ch] = f.chain] /\ lastEmit' = f.emit
              ELSE chains' = [chains EXCEPT ![ch] = chn] /\ lastEmit' = NoEmit
    /\ UNCHANGED <<now, cache, calls, mdCalls, subscriptions, activePolling, started, lib, jsVars, routeVars>>

(* a wait inside a chain's fetchBirdseyeData is over *)
PollWake(ch) ==
    /\ chains[ch].pc = "fetching"
    /\ chains[ch].call.pc = "sleep"
    /\ now >= chains[ch].call.wakeAt
    /\ chains' = [chains EXCEPT ![ch].call = BdWake(chains[ch].call)]
    /\ lastEmit' = NoEmit
    /\ UNCHANGED <<now, fetchVars, subscriptions, activePolling, started, lib, jsVars, routeVars>>

----------------------------------------------------------------------------
(* Subscription registry of the compiled library: one interval timer polls every active
   symbol and fans the latest candle out to the symbol's subscriptions *)

JsSymbols == {"SOL", "XYZ"}
TimerIds == 1..MaxChains
TickIds == 1..MaxChains

(* updateInterval = null; no timer handle is left to hand out *)
NoTimer == 0
NoSlot == -1

(* a Set in insertion order *)
Has(seq, x) == \E i \in 1..Len(seq) : seq[i] = x
SetAdd(seq, x) == IF Has(seq, x) THEN seq ELSE Append(seq, x)
SetDelete(seq, x) == SelectSeq(seq, LAMBDA y : y # x)

(* the module state of the registry as one value *)
Registry == [subscriptions |-> subscriptions, activeSymbols |-> activeSymbols,
             updateInterval |-> updateInterval, timers |-> timers]

(* clearInterval(handle) *)
clearInterval(tms, handle) == { tm \in tms : tm.id # handle }

(* variant: the previous interval is left running *)
setupPolling_NoClear(R, t) ==
    LET free == { i \in TimerIds : \A tm \in R.timers : tm.id # i }
        id == IF free = {} THEN NoSlot ELSE CHOOSE i \in free : \A j \in free : i <= j
    IN  IF Len(R.activeSymbols) = 0 THEN R
        ELSE IF id = NoSlot THEN [R EXCEPT !.updateInterval = NoSlot]
        ELSE [R EXCEPT !.updateInterval = id,
                       !.timers = R.timers \cup
                                  {[id |-> id, symbols |-> R.activeSymbols,
                                    dueAt |-> t + TimerDelay(Num(POLL_INTERVAL))]}]

(* setupPolling(): clear the interval, snapshot activeSymbols, setInterval(..., 30000) *)
setupPolling(R, t) ==
    LET cleared == IF R.updateInterval # NoTimer THEN clearInterval(R.timers, R.updateInterval)
                   ELSE R.timers
        symbols == R.activeSymbols
        free == { i \in TimerIds : \A tm \in cleared : tm.id # i }
        id == IF free = {} THEN NoSlot ELSE CHOOSE i \in free : \A j \in free : i <= j
    IN  IF Len(symbols) = 0 THEN [R EXCEPT !.timers = cleared]
        ELSE IF id = NoSlot THEN [R EXCEPT !.updateInterval = NoSlot]
        ELSE [R EXCEPT !.updateInterval = id,
                       !.timers = cleared \cup
                                  {[id |-> id, symbols |-> symbols,
                                    dueAt |-> t + TimerDelay(Num(POLL_INTERVAL))]}]

(* subscriptions.get(symbol) || new Set() *)
JsGetSubscriptions(R, symbol) ==
    IF symbol \in DOMAIN R.subscriptions THEN R.subscriptions[symbol] ELSE << >>

(* addSubscription(symbol, subscription) *)
JsAddSubscription(R, symbol, sub, t) ==
    LET subs == [k \in DOMAIN R.subscriptions \cup {symbol} |->
                    IF k = symbol THEN SetAdd(JsGetSubscriptions(R, symbol), sub)
                    ELSE R.subscriptions[k]]
    IN  setupPolling([R EXCEPT !.subscriptions = subs,
                               !.activeSymbols = SetAdd(R.activeSymbols, symbol)], t)

(* variant: every removeSubscription restarts the polling *)
JsRemoveSubscription_AlwaysRestart(R, symbol, sub, t) ==
    LET rest == SetDelete(JsGetSubscriptions(R, symbol), sub)
        R1 == IF symbol \notin DOMAIN R.subscriptions THEN R
              ELSE IF Len(rest) = 0
              THEN [R EXCEPT !.subscriptions = [k \in DOMAIN R.subscriptions \ {symbol} |->
                                                   R.subscriptions[k]],
                             !.activeSymbols = SetDelete(R.activeSymbols, symbol)]
              ELSE [R EXCEPT !.subscriptions[symbol] = rest]
        R2 == IF R1.updateInterval # NoTimer
              THEN [R1 EXCEPT !.timers = clearInterval(R1.timers, R1.updateInterval),
                              !.updateInterval = NoTimer]
              ELSE R1
    IN  setupPolling(R2, t)

(* variant: the interval keeps its snapshot when the last subscription of a symbol goes *)
JsRemoveSubscription_NoRestart(R, symbol, sub, t) ==
    IF symbol \notin DOMAIN R.subscriptions THEN R
    ELSE LET rest == SetDelete(R.subscriptions[symbol], sub) IN
         IF Len(rest) = 0
         THEN [R EXCEPT !.subscriptions = [k \in DOMAIN R.subscriptions \ {symbol} |->
                                              R.subscriptions[k]],
                        !.activeSymbols = SetDelete(R.activeSymbols, symbol)]
         ELSE [R EXCEPT !.subscriptions[symbol] = rest]

(* variant: the entry of a symbol is kept when its last subscription goes *)
JsRemoveSubscription_KeepsEntry(R, symbol, sub, t) ==
    IF symbol \notin DOMAIN R.subscriptions THEN R
    ELSE [R EXCEPT !.subscriptions[symbol] = SetDelete(R.subscriptions[symbol], sub)]

(* removeSubscription(symbol, subscription) *)
JsRemoveSubscription(R, symbol, sub, t) ==
    IF symbol \notin DOMAIN R.subscriptions THEN R
    ELSE LET rest == SetDelete(R.subscriptions[symbol], sub) IN
         IF Len(rest) = 0
         THEN LET R1 == [R EXCEPT !.subscriptions = [k \in DOMAIN R.subscriptions \ {symbol} |->
                                                        R.subscriptions[k]],
                                  !.activeSymbols = SetDelete(R.activeSymbols, symbol)]
                  R2 == IF R1.updateInterval # NoTimer
                        THEN [R1 EXCEPT !.timers = clearInterval(R1.timers, R1.updateInterval),
                                        !.updateInterval = NoTimer]
                        ELSE R1
              IN  setupPolling(R2, t)
         ELSE [R EXCEPT !.subscriptions[symbol] = rest]

(* what the callbacks of one step do besides receiving the candle: the callback of
   `raises` throws, the callback of `by` calls removeSubscription for `removes` *)
NoFault == [raises |-> "", by |-> "", removes |-> ""]
Faults ==
    {NoFault}
    \cup { [raises |-> x, by |-> "", removes |-> ""] : x \in Subs }
    \cup { [raises |-> "", by |-> x, removes |-> y] : x \in Subs, y \in Subs }

(* variant: the pass walks a copy of the Set made when it began *)
RECURSIVE forEachSub_Copy(_, _, _, _, _, _, _)
forEachSub_Copy(R, symbol, order, i, got, fault, t) ==
    IF i > Len(order) THEN [reg |-> R, got |-> got, raised |-> FALSE]
    ELSE LET sub == order[i] IN
         IF fault.raises = sub
         THEN [reg |-> R, got |-> Append(got, sub), raised |-> TRUE]
         ELSE forEachSub_Copy(IF fault.by = sub
                              THEN JsRemoveSubscription(R, symbol, fault.removes, t) ELSE R,
                              symbol, order, i + 1, Append(got, sub), fault, t)

(* subs.forEach(sub => sub.callback(data)) from position i of the Set as it was when the
   pass began: a subscription deleted before its turn is not visited, a callback that
   throws ends the pass *)
RECURSIVE forEachSub(_, _, _, _, _, _, _)
forEachSub(R, symbol, order, i, got, fault, t) ==
    IF i > Len(order) THEN [reg |-> R, got |-> got, raised |-> FALSE]
    ELSE LET sub == order[i] IN
         IF ~Has(JsGetSubscriptions(R, symbol), sub)
         THEN forEachSub(R, symbol, order, i + 1, got, fault, t)
         ELSE IF fault.raises = sub
         THEN [reg |-> R, got |-> Append(got, sub), raised |-> TRUE]
         ELSE forEachSub(IF fault.by = sub
                         THEN JsRemoveSubscription(R, symbol, fault.removes, t) ELSE R,
                         symbol, order, i + 1, Append(got, sub), fault, t)

(* emitMarketData(symbol, data); the pass is recorded with the listeners the Set held
   when it began, the listeners whose callback was called, whether a callback threw, and
   the removeSubscription a callback made *)
JsEmitMarketData(R, symbol, data, fault, t) ==
    LET order == JsGetSubscriptions(R, symbol)
        r == forEachSub(R, symbol, order, 1, << >>, fault, t)
        called == { n \in 1..Len(r.got) : r.got[n] = fault.by /\ fault.raises # fault.by }
    IN  [reg |-> r.reg,
         pass |-> [symbol |-> symbol, status |-> "emitted", candle |-> <<data>>, order |-> order,
                   got |-> r.got, raised |-> r.raised,
                   removal |-> IF called = {} THEN << >>
                               ELSE <<[sub |-> fault.removes,
                                       after |-> CHOOSE n \in called : \A m \in called : n <= m]>>]]

(* a poll of the callback that ended without emitMarketData: the fetch threw, or the batch
   was empty *)
NoPass(symbol, c) ==
    [symbol |-> symbol, status |-> IF c.result.status = "ok" THEN "empty" ELSE "failed",
     candle |-> << >>, order |-> << >>, got |-> << >>, raised |-> FALSE, removal |-> << >>]

(* variant: an error of a poll stops the polling *)
OnPollError_Stops(R) ==
    [R EXCEPT !.timers = clearInterval(R.timers, R.updateInterval), !.updateInterval = NoTimer]

(* catch (error) { console.error(`Error polling ${symbol}:`, error) } *)
OnPollError(R) == R

FreeTick == [pc |-> "free", symbols |-> << >>, idx |-> 0, call |-> IdleCall]

(* the interval callback: for (const symbol of symbols) { try { data = await
   fetchBirdseyeKlines(symbol, '1m', 1); if (data.length > 0) emitMarketData(symbol,
   data[data.length - 1]) } catch { log } }, run until it suspends or ends *)
RECURSIVE TickLoop(_, _, _, _, _, _, _)
RECURSIVE TickAfterFetch(_, _, _, _, _, _, _, _)
TickLoop(symbols, idx, R, store, passes, fault, t) ==
    IF idx > Len(symbols) THEN [tick |-> FreeTick, reg |-> R, passes |-> passes]
    ELSE LET c == KlinesEnter(symbols[idx], "1m", 1, store, t) IN
         IF c.pc = "done" THEN TickAfterFetch(symbols, idx, c, R, store, passes, fault, t)
         ELSE [tick |-> [pc |-> "await", symbols |-> symbols, idx |-> idx, call |-> c],
               reg |-> R, passes |-> passes]

TickAfterFetch(symbols, idx, c, R, store, passes, fault, t) ==
    LET data == c.result.data IN
    IF c.result.status = "ok" /\ Len(data) > 0
    THEN LET e == JsEmitMarketData(R, symbols[idx], data[Len(data)], fault, t) IN
         TickLoop(symbols, idx + 1, IF e.pass.raised THEN OnPollError(e.reg) ELSE e.reg,
                  store, Append(passes, e.pass), fault, t)
    ELSE TickLoop(symbols, idx + 1, IF c.result.status = "ok" THEN R ELSE OnPollError(R),
                  store, Append(passes, NoPass(symbols[idx], c)), fault, t)

(* the registry variables take the value R *)
SetRegistry(R) ==
    /\ subscriptions' = R.subscriptions
    /\ activeSymbols' = R.activeSymbols
    /\ updateInterval' = R.updateInterval
    /\ timers' = R.timers

(* a caller adds a subscription *)
JsAdd(symbol, sub) ==
    LET R == JsAddSubscription(Registry, symbol, sub, now) IN
    /\ lib = LibJs
    /\ R.updateInterval # NoSlot
    /\ SetRegistry(R)
    /\ fanout' = << >>
    /\ UNCHANGED <<now, fetchVars, activePolling, chains, lastEmit, started, lib, ticks, sockets, routeVars>>

(* a caller removes a subscription *)
JsRemove(symbol, sub) ==
    LET R == JsRemoveSubscription(Registry, symbol, sub, now) IN
    /\ lib = LibJs
    /\ R.updateInterval # NoSlot
    /\ SetRegistry(R)
    /\ fanout' = << >>
    /\ UNCHANGED <<now, fetchVars, activePolling, chains, lastEmit, started, lib, ticks, sockets, routeVars>>

(* the interval timer fires: it is armed again and its callback runs to its first await *)
IntervalFire(id, fault) ==
    \E tm \in timers :
        /\ tm.id = id
        /\ now >= tm.dueAt
        /\ LET again == [tm EXCEPT !.dueAt = now + TimerDelay(Num(POLL_INTERVAL))]
               R0 == [Registry EXCEPT !.timers = (timers \ {tm}) \cup {again}]
               r == TickLoop(tm.symbols, 1, R0, cache, << >>, fault, now)
               free == { k \in TickIds : ticks[k].pc = "free" }
           IN  /\ r.reg.updateInterval # NoSlot
               /\ r.tick.pc # "free" => free # {}
               /\ SetRegistry(r.reg)
               /\ fanout' = r.passes
               /\ ticks' = IF r.tick.pc = "free" THEN ticks
                           ELSE [ticks EXCEPT ![CHOOSE k \in free : \A j \in free : k <= j] = r.tick]
        /\ UNCHANGED <<now, fetchVars, activePolling, chains, lastEmit, started, lib, sockets, routeVars>>

(* the upstream request a callback awaits settles *)
TickRespond(k, resp, fault) ==
    /\ ticks[k].pc = "await"
    /\ ticks[k].call.pc = "fetch"
    /\ LET s == KlinesSettle(ticks[k].call, resp, cache, now)
           r == IF s.call.pc = "done"
                THEN TickAfterFetch(ticks[k].symbols, ticks[k].idx, s.call, Registry, s.store,
                                    << >>, fault, now)
                ELSE [tick |-> [ticks[k] EXCEPT !.call = s.call], reg |-> Registry,
                      passes |-> << >>]
       IN  /\ r.reg.updateInterval # NoSlot
           /\ cache' = s.store
           /\ SetRegistry(r.reg)
           /\ fanout' = r.passes
           /\ ticks' = [ticks EXCEPT ![k] = r.tick]
    /\ UNCHANGED <<now, calls, responseCache, mdCalls, activePolling, chains, lastEmit,
                   started, lib, sockets, routeVars>>

(* a wait inside the fetch a callback awaits is over *)
TickWake(k, fault) ==
    /\ ticks[k].pc = "await"
    /\ ticks[k].call.pc = "sleep"
    /\ now >= ticks[k].call.wakeAt
    /\ LET c == KlinesNextAttempt(ticks[k].call, cache)
           r == IF c.pc = "done"
                THEN TickAfterFetch(ticks[k].symbols, ticks[k].idx, c, Registry, cache,
                                    << >>, fault, now)
                ELSE [tick |-> [ticks[k] EXCEPT !.call = c], reg |-> Registry,
                      passes |-> << >>]
       IN  /\ r.reg.updateInterval # NoSlot
           /\ SetRegistry(r.reg)
           /\ fanout' = r.passes
           /\ ticks' = [ticks EXCEPT ![k] = r.tick]
    /\ UNCHANGED <<now, fetchVars, activePolling, chains, lastEmit, started, lib, sockets, routeVars>>

----------------------------------------------------------------------------
(* The socket.io layer: io.on('connection'), market:subscribe, market:unsubscribe,
   disconnect *)

Conns == {"s1", "s2"}

(* the subscription object the n-th market:subscribe handler of a connection creates *)
SubscriptionOf(conn, n) == conn \o "#" \o ToString(n)

(* whether a subscription object was created by a handler of the connection *)
CreatedBy(sub, conn) == \E n \in 1..MaxCalls : sub = SubscriptionOf(conn, n)

(* variant: only the handler registered last runs *)
RunRemoveHandlers_LastOnly(R, handlers, i, t) ==
    IF Len(handlers) = 0 THEN R
    ELSE JsRemoveSubscription(R, handlers[Len(handlers)].symbol, handlers[Len(handlers)].sub, t)

(* the listeners a market:subscribe handler registered for market:unsubscribe (or for
   disconnect) run in the order of their registration: removeSubscription(symbol,
   subscription) with the symbol and the object each one closes over *)
RECURSIVE RunRemoveHandlers(_, _, _, _)
RunRemoveHandlers(R, handlers, i, t) ==
    IF i > Len(handlers) THEN R
    ELSE RunRemoveHandlers(JsRemoveSubscription(R, handlers[i].symbol, handlers[i].sub, t),
                           handlers, i + 1, t)

(* io.on('connection', socket => ...) *)
SocketConnect(conn) ==
    /\ lib = LibJs
    /\ conn \notin DOMAIN sockets
    /\ sockets' = [c \in DOMAIN sockets \cup {conn} |->
                      IF c = conn THEN [state |-> "open", handlers |-> << >>] ELSE sockets[c]]
    /\ fanout' = << >>
    /\ UNCHANGED <<now, fetchVars, regVars, started, lib, activeSymbols, updateInterval,
                   timers, ticks, routeVars>>

(* socket.on('market:subscribe', ({symbol, resolution}) => ...); at most MaxCalls
   market:subscribe events arrive in a run *)
SocketSubscribe(conn, symbol) ==
    /\ conn \in DOMAIN sockets
    /\ sockets[conn].state = "open"
    /\ started < MaxCalls
    /\ started' = started + 1
    /\ LET subscription == SubscriptionOf(conn, Len(sockets[conn].handlers) + 1)
           R == JsAddSubscription(Registry, symbol, subscription, now)
       IN  /\ R.updateInterval # NoSlot
           /\ SetRegistry(R)
           /\ sockets' = [sockets EXCEPT ![conn].handlers =
                              Append(@, [symbol |-> symbol, sub |-> subscription])]
    /\ fanout' = << >>
    /\ UNCHANGED <<now, fetchVars, activePolling, chains, lastEmit, lib, ticks, routeVars>>

(* a market:unsubscribe event of the connection with the payload { symbol: data }; the
   listeners are registered as () => removeSubscription(symbol, subscription) and take
   no argument *)
SocketUnsubscribe(conn, data) ==
    /\ conn \in DOMAIN sockets
    /\ sockets[conn].state = "open"
    /\ LET R == RunRemoveHandlers(Registry, sockets[conn].handlers, 1, now) IN
       /\ R.updateInterval # NoSlot
       /\ SetRegistry(R)
    /\ fanout' = << >>
    /\ UNCHANGED <<now, fetchVars, activePolling, chains, lastEmit, started, lib, ticks, sockets, routeVars>>

(* the disconnect event of the connection *)
SocketDisconnect(conn) ==
    /\ conn \in DOMAIN sockets
    /\ sockets[conn].state = "open"
    /\ LET R == RunRemoveHandlers(Registry, sockets[conn].handlers, 1, now) IN
       /\ R.updateInterval # NoSlot
       /\ SetRegistry(R)
    /\ sockets' = [sockets EXCEPT ![conn].state = "closed"]
    /\ fanout' = << >>
    /\ UNCHANGED <<now, fetchVars, activePolling, chains, lastEmit, started, lib, ticks, routeVars>>

----------------------------------------------------------------------------
(* The GET /market-data routes: routes/market-data.js of the compiled build calls
   fetchBirdseyeKlines, the TypeScript route calls fetchMarketData *)

RouteIds == KlinesCallIds \cup MdCallIds

(* req.query: an absent or empty parameter is "" *)
NoQuery == [symbol |-> "", interval |-> "", limit |-> ""]
JsQueries == [symbol : {"", "SOL", "XYZ"}, interval : {"", "1h"}, limit : {"", "1", "0", "1001"}]
TsQueries == [symbol : {"", "SOLUSDT", "XYZ"}, interval : {"", "1h"},
              limit : {"", "1", "0", "1001", "abc", "2x"}]

IdleRequest == [pc |-> "idle", query |-> NoQuery, status |-> 0, outcome |-> NoResult]
Pending(q) == [pc |-> "pending", query |-> q, status |-> 0, outcome |-> NoResult]
Reply(q, status, outcome) == [pc |-> "replied", query |-> q, status |-> status, outcome |-> outcome]

(* String.prototype.includes *)
Includes(s, part) ==
    \E i \in 1..(Len(s) - Len(part) + 1) : SubSeq(s, i, i + Len(part) - 1) = part

(* limit ? parseInt(limit) : 1000 *)
JsRouteLimit(text) == IF text # "" THEN ParseInt(text) ELSE Num(1000)

(* limit ? parseInt(limit, 10) : 100 *)
TsRouteLimit(text) == IF text # "" THEN ParseInt(text) ELSE Num(100)

(* isNaN(dataLimit) || dataLimit <= 0 || dataLimit > 1000 *)
TsLimitRejected(dataLimit) == dataLimit.nan \/ dataLimit.val <= 0 \/ dataLimit.val > 1000

(* the status the compiled route answers the outcome of fetchBirdseyeKlines with *)
JsRouteStatus(result) ==
    IF result.status = "ok" THEN 200
    ELSE IF Includes(result.error, "Unsupported symbol") THEN 400
    ELSE 500

(* the status the TypeScript route answers the outcome of fetchMarketData with *)
TsRouteStatus(result) == IF result.status = "ok" THEN 200 ELSE 500

(* GET /market-data of the compiled build up to its await *)
RouteJsGet(id, q) ==
    /\ lib = LibJs
    /\ Quiet
    /\ started < MaxCalls
    /\ started' = started + 1
    /\ IF q.symbol = "" \/ q.interval = ""
       THEN /\ http' = [http EXCEPT ![id] = Reply(q, 400, NoResult)]
            /\ calls' = calls
       ELSE /\ http' = [http EXCEPT ![id] = Pending(q)]
            /\ calls' = [calls EXCEPT ![id] = KlinesEnter(q.symbol, q.interval,
                                                          JsRouteLimit(q.limit).val, cache, now)]
    /\ UNCHANGED <<now, cache, responseCache, mdCalls, regVars, lib, jsVars, wsVars, resolved>>

(* the await of the compiled route resumes: res.json(...) or the catch *)
RouteJsReply(id) ==
    /\ http[id].pc = "pending"
    /\ calls[id].pc = "done"
    /\ http' = [http EXCEPT ![id] = Reply(http[id].query, JsRouteStatus(calls[id].result),
                                          calls[id].result)]
    /\ calls' = [calls EXCEPT ![id] = IdleCall]
    /\ UNCHANGED <<now, cache, responseCache, mdCalls, regVars, started, lib, jsVars, wsVars, resolved>>

(* GET /market-data of the TypeScript build up to its await *)
RouteTsGet(id, q) ==
    LET timeInterval == IF q.interval # "" THEN q.interval ELSE "1h"
        dataLimit == TsRouteLimit(q.limit)
    IN  /\ lib = LibTs
        /\ Quiet
        /\ started < MaxCalls
        /\ started' = started + 1
        /\ IF q.symbol = "" \/ TsLimitRejected(dataLimit)
           THEN /\ http' = [http EXCEPT ![id] = Reply(q, 400, NoResult)]
                /\ mdCalls' = mdCalls
           ELSE /\ http' = [http EXCEPT ![id] = Pending(q)]
                /\ mdCalls' = [mdCalls EXCEPT ![id] = MdEnter(q.symbol, timeInterval, dataLimit.val,
                                                              responseCache, now)]
        /\ UNCHANGED <<now, cache, calls, responseCache, regVars, lib, jsVars, wsVars, resolved>>

(* the await of the TypeScript route resumes: res.json(...) or the catch *)
RouteTsReply(id) ==
    /\ http[id].pc = "pending"
    /\ mdCalls[id].pc = "done"
    /\ http' = [http EXCEPT ![id] = Reply(http[id].query, TsRouteStatus(mdCalls[id].result),
                                          mdCalls[id].result)]
    /\ mdCalls' = [mdCalls EXCEPT ![id] = IdleCall]
    /\ UNCHANGED <<now, cache, calls, responseCache, regVars, started, lib, jsVars, wsVars, resolved>>

----------------------------------------------------------------------------
(* The symbol resolvers as their callers use them: a symbol is resolved, and what came
   out is handed in again as a symbol *)

Resolvers == {"getTokenAddress", "getMintAddress", "getCoinGeckoId"}

MintAddresses == { SYMBOL_TO_ADDRESS[k] : k \in DOMAIN SYMBOL_TO_ADDRESS }

ResolveInputs(resolver) ==
    IF resolver = "getCoinGeckoId"
    THEN DOMAIN SYMBOL_TO_COINGECKO_ID
         \cup { SYMBOL_TO_COINGECKO_ID[k] : k \in DOMAIN SYMBOL_TO_COINGECKO_ID }
         \cup {"BTCUSDT", "ETHBUSD", "SOLUSD", "Bitcoin", "TETHER", "XYZ", ""}
    ELSE DOMAIN SYMBOL_TO_ADDRESS \cup MintAddresses
         \cup {"SOLUSDT", "BONKUSDT", "sol", "XYZ", "", "Es9vMFrzaCERmJfrF4H2FYD4KCoNkY11McCe8BenwNYB"}

ResolveWith(resolver, symbol) ==
    CASE resolver = "getTokenAddress" -> getTokenAddress(symbol)
      [] resolver = "getMintAddress" -> getMintAddress(symbol)
      [] resolver = "getCoinGeckoId" -> getCoinGeckoId(symbol)

NoResolution == [resolver |-> "", input |-> "", id |-> null, again |-> << >>]

(* a caller resolves a raw symbol *)
Resolve(resolver, symbol) ==
    /\ resolved' = [resolver |-> resolver, input |-> symbol, id |-> ResolveWith(resolver, symbol),
                    again |-> << >>]
    /\ UNCHANGED <<now, fetchVars, regVars, started, lib, jsVars, wsVars, http>>

(* the id that came out is resolved in turn *)
ResolveAgain ==
    /\ resolved.resolver # ""
    /\ resolved.id # null
    /\ resolved.again = << >>
    /\ resolved' = [resolved EXCEPT !.again = <<ResolveWith(resolved.resolver, resolved.id)>>]
    /\ UNCHANGED <<now, fetchVars, regVars, started, lib, jsVars, wsVars, http>>

----------------------------------------------------------------------------
(* The clock: Date.now() moves on to the next instant at which a timer is due or a
   cache entry is about to expire or expires *)

Instants ==
    { calls[id].wakeAt : id \in { x \in KlinesCallIds : calls[x].pc = "sleep" } }
    \cup { cache[k].timestamp + CACHE_TTL - 1 : k \in DOMAIN cache }
    \cup { cache[k].timestamp + CACHE_TTL : k \in DOMAIN cache }

MdInstants ==
    { mdCalls[id].wakeAt : id \in { x \in MdCallIds : mdCalls[x].pc = "sleep" } }
    \cup { responseCache[k].timestamp + MD_CACHE_TTL - 1 : k \in DOMAIN responseCache }
    \cup { responseCache[k].timestamp + MD_CACHE_TTL : k \in DOMAIN responseCache }

Tick ==
    /\ \E t \in Instants : t > now /\ t <= MaxTime /\ now' = t
    /\ UNCHANGED <<fetchVars, regVars, started, lib, jsVars, routeVars>>

RegInstants ==
    { chains[ch].dueAt : ch \in { x \in ChainIds : chains[x].pc = "timer" } }
    \cup { chains[ch].call.wakeAt :
             ch \in { x \in ChainIds : chains[x].pc = "fetching" /\ chains[x].call.pc = "sleep" } }
    \cup { responseCache[k].timestamp + MD_CACHE_TTL - 1 : k \in DOMAIN responseCache }
    \cup { responseCache[k].timestamp + MD_CACHE_TTL : k \in DOMAIN responseCache }

RegTick ==
    /\ \E t \in RegInstants : t > now /\ t <= RegMaxTime /\ now' = t
    /\ lastEmit' = NoEmit
    /\ UNCHANGED <<fetchVars, subscriptions, activePolling, chains, started, lib, jsVars, routeVars>>

MdTick ==
    /\ \E t \in MdInstants : t > now /\ t <= MdMaxTime /\ now' = t
    /\ UNCHANGED <<fetchVars, regVars, started, lib, jsVars, routeVars>>

JsInstants ==
    { tm.dueAt : tm \in timers }
    \cup { ticks[k].call.wakeAt :
             k \in { x \in TickIds : ticks[x].pc = "await" /\ ticks[x].call.pc = "sleep" } }

JsTick ==
    /\ \E t \in JsInstants : t > now /\ t <= JsMaxTime /\ now' = t
    /\ fanout' = << >>
    /\ UNCHANGED <<fetchVars, regVars, started, lib, activeSymbols, updateInterval, timers,
                   ticks, sockets, routeVars>>

(* the clock that never holds a callback back: it goes on to the firing times of the
   interval up to POLL_INTERVAL and to the end of every wait a suspended callback is in *)
JsLiveInstants ==
    { tm.dueAt : tm \in { x \in timers : x.dueAt <= POLL_INTERVAL } }
    \cup { ticks[k].call.wakeAt :
             k \in { x \in TickIds : ticks[x].pc = "await" /\ ticks[x].call.pc = "sleep" } }

JsLiveTick ==
    /\ \E t \in JsLiveInstants : t > now /\ now' = t
    /\ fanout' = << >>
    /\ UNCHANGED <<fetchVars, regVars, started, lib, activeSymbols, updateInterval, timers,
                   ticks, sockets, routeVars>>

----------------------------------------------------------------------------

Init ==
    /\ now = 0
    /\ cache = << >>
    /\ calls = [id \in KlinesCallIds |-> IdleCall]
    /\ responseCache = << >>
    /\ mdCalls = [id \in MdCallIds |-> IdleCall]
    /\ subscriptions = << >>
    /\ activePolling = {}
    /\ chains = [ch \in ChainIds |-> FreeChain]
    /\ lastEmit = NoEmit
    /\ started = 0
    /\ lib \in {LibJs, LibTs}
    /\ activeSymbols = << >>
    /\ updateInterval = NoTimer
    /\ timers = {}
    /\ ticks = [k \in TickIds |-> FreeTick]
    /\ fanout = << >>
    /\ sockets = << >>
    /\ http = [id \in RouteIds |-> IdleRequest]
    /\ resolved = NoResolution
    /\ binanceWs = NoSocket
    /\ webSockets = [w \in WsIds |-> NoWebSocket]
    /\ reconnects = 0

(* the process has loaded the compiled build / the TypeScript build *)
InitJs ==
    /\ Init
    /\ lib = LibJs

InitTs ==
    /\ Init
    /\ lib = LibTs

(* the routes of the compiled Birdseye library *)
Next ==
    \/ \E id \in KlinesCallIds, s \in RawSymbols, r \in Requests : KlinesCall(id, s, r[1], r[2])
    \/ \E id \in KlinesCallIds, resp \in Responses : KlinesRespond(id, resp)
    \/ \E id \in KlinesCallIds : KlinesWake(id)
    \/ \E id \in KlinesCallIds : KlinesReturn(id)
    \/ Tick

Spec == InitJs /\ [][Next]_vars

(* the routes of the TypeScript Birdseye library *)
NextMd ==
    \/ \E id \in MdCallIds, s \in MdRawSymbols, r \in Requests : MdCall(id, s, r[1], r[2])
    \/ \E id \in MdCallIds, resp \in Responses, rnd \in RandomDraws : MdRespond(id, resp, rnd)
    \/ \E id \in MdCallIds : MdWake(id)
    \/ \E id \in MdCallIds : MdReturn(id)
    \/ MdTick

SpecMd == InitTs /\ [][NextMd]_vars

(* the fetch entry point of whichever build is loaded *)
NextFetch == Next \/ NextMd

SpecFetch == Init /\ [][NextFetch]_vars

(* the subscription registry of the TypeScript library with its poll loops *)
NextRegistry ==
    \/ \E symbol \in RegSymbols, sub \in Subs : AddSubscription(symbol, sub)
    \/ \E symbol \in RegSymbols, sub \in Subs : RemoveSubscription(symbol, sub)
    \/ \E ch \in ChainIds : PollTimer(ch)
    \/ \E ch \in ChainIds, resp \in PollResponses, rnd \in PollDraws : PollRespond(ch, resp, rnd)
    \/ \E ch \in ChainIds : PollWake(ch)
    \/ RegTick

SpecRegistry == InitTs /\ [][NextRegistry]_vars

(* what the upstream answers to the request of a poll *)
JsPollResponses ==
    { r \in Responses : r.rejects
                        \/ (r.status = 200 /\ r.body.parses /\ r.body.success /\ r.body.hasData
                            /\ r.body.items \in {<< >>, ItemsA}) }

(* the subscription registry of the compiled library with its interval timer *)
NextJsRegistry ==
    \/ \E symbol \in JsSymbols, sub \in Subs : JsAdd(symbol, sub)
    \/ \E symbol \in JsSymbols, sub \in Subs : JsRemove(symbol, sub)
    \/ \E id \in TimerIds, fault \in Faults : IntervalFire(id, fault)
    \/ \E k \in TickIds, resp \in JsPollResponses, fault \in Faults : TickRespond(k, resp, fault)
    \/ \E k \in TickIds, fault \in Faults : TickWake(k, fault)
    \/ JsTick

SpecJsRegistry == InitJs /\ [][NextJsRegistry]_vars

(* the registry with the scheduling of the event loop: a due timer fires, an awaited
   request settles, a wait ends, time goes on; the callbacks of the subscriptions
   return normally *)
JsLiveResponses ==
    { r \in Responses : r.rejects
                        \/ (r.status = 200 /\ r.body.parses /\ r.body.success /\ r.body.hasData
                            /\ r.body.items = ItemsA) }

NextJsLive ==
    \/ \E symbol \in JsSymbols, sub \in Subs : JsAdd(symbol, sub)
    \/ \E symbol \in JsSymbols, sub \in Subs : JsRemove(symbol, sub)
    \/ \E id \in TimerIds : IntervalFire(id, NoFault)
    \/ \E k \in TickIds, resp \in JsLiveResponses : TickRespond(k, resp, NoFault)
    \/ \E k \in TickIds : TickWake(k, NoFault)
    \/ JsLiveTick

JsFairness ==
    /\ WF_vars(JsLiveTick)
    /\ WF_vars(\E id \in TimerIds : IntervalFire(id, NoFault))
    /\ \A k \in TickIds :
          /\ WF_vars(\E resp \in JsLiveResponses : TickRespond(k, resp, NoFault))
          /\ WF_vars(TickWake(k, NoFault))

SpecJsLive == InitJs /\ [][NextJsLive]_vars /\ JsFairness

(* the socket server on top of the registry; the callback of a subscription is
   socket.emit('market:data', data) *)
NextSocket ==
    \/ \E conn \in Conns : SocketConnect(conn)
    \/ \E conn \in Conns, symbol \in JsSymbols : SocketSubscribe(conn, symbol)
    \/ \E conn \in Conns, data \in JsSymbols : SocketUnsubscribe(conn, data)
    \/ \E conn \in Conns : SocketDisconnect(conn)
    \/ \E id \in TimerIds : IntervalFire(id, NoFault)
    \/ \E k \in TickIds, resp \in JsPollResponses : TickRespond(k, resp, NoFault)
    \/ \E k \in TickIds : TickWake(k, NoFault)
    \/ JsTick

SpecSocket == InitJs /\ [][NextSocket]_vars

----------------------------------------------------------------------------
(* Concurrent route requests: the event loop interleaves the invocations of
   fetchBirdseyeKlines at their awaits; nothing in the function keeps track of a request
   that is already in flight *)

ConcCallIds == {"r1", "r2"}
ConcSymbols == {"SOL", SOL_ADDRESS}

ConcResponses ==
    { [rejects |-> TRUE, status |-> 0, retryAfter |-> NoHeader, body |-> NoBody] }
    \cup { [rejects |-> FALSE, status |-> 200, retryAfter |-> NoHeader,
            body |-> [parses |-> TRUE, success |-> TRUE, hasData |-> TRUE, itemsIsArray |-> TRUE,
                      items |-> its]] : its \in {ItemsA, ItemsB} }

(* a route calls fetchBirdseyeKlines while other invocations may be suspended *)
KlinesCallConcurrent(id, s, i, l) ==
    /\ lib = LibJs
    /\ calls[id].pc = "idle"
    /\ started < MaxCalls
    /\ started' = started + 1
    /\ calls' = [calls EXCEPT ![id] = KlinesEnter(s, i, l, cache, now)]
    /\ UNCHANGED <<now, cache, responseCache, mdCalls, regVars, lib, jsVars, routeVars>>

(* the clock of the interleavings: the next instant at which a backoff timer is due *)
ConcInstants ==
    { calls[id].wakeAt : id \in { x \in DOMAIN calls : calls[x].pc = "sleep" } }

ConcTick ==
    /\ \E t \in ConcInstants : t > now /\ t <= ConcMaxTime /\ now' = t
    /\ UNCHANGED <<fetchVars, regVars, started, lib, jsVars, routeVars>>

InitConcurrent ==
    /\ now = 0
    /\ cache = << >>
    /\ calls = [id \in ConcCallIds |-> IdleCall]
    /\ responseCache = << >>
    /\ mdCalls = [id \in MdCallIds |-> IdleCall]
    /\ subscriptions = << >>
    /\ activePolling = {}
    /\ chains = [ch \in ChainIds |-> FreeChain]
    /\ lastEmit = NoEmit
    /\ started = 0
    /\ lib = LibJs
    /\ activeSymbols = << >>
    /\ updateInterval = NoTimer
    /\ timers = {}
    /\ ticks = [k \in TickIds |-> FreeTick]
    /\ fanout = << >>
    /\ sockets = << >>
    /\ http = [id \in RouteIds |-> IdleRequest]
    /\ resolved = NoResolution
    /\ binanceWs = NoSocket
    /\ webSockets = [w \in WsIds |-> NoWebSocket]
    /\ reconnects = 0

NextConcurrent ==
    \/ \E id \in ConcCallIds, s \in ConcSymbols, r \in Requests :
            KlinesCallConcurrent(id, s, r[1], r[2])
    \/ \E id \in ConcCallIds, resp \in ConcResponses : KlinesRespond(id, resp)
    \/ \E id \in ConcCallIds : KlinesWake(id)
    \/ \E id \in ConcCallIds : KlinesReturn(id)
    \/ ConcTick

SpecConcurrent == InitConcurrent /\ [][NextConcurrent]_vars

----------------------------------------------------------------------------
(* The routes of whichever build is loaded, serving one request at a time *)

RouteResponses ==
    { [rejects |-> TRUE, status |-> 0, retryAfter |-> NoHeader, body |-> NoBody] }
    \cup { [rejects |-> FALSE, status |-> 200, retryAfter |-> NoHeader,
            body |-> [parses |-> TRUE, success |-> TRUE, hasData |-> TRUE, itemsIsArray |-> TRUE,
                      items |-> ItemsA]] }

RouteInstants ==
    { calls[id].wakeAt : id \in { x \in DOMAIN calls : calls[x].pc = "sleep" } }
    \cup { mdCalls[id].wakeAt : id \in { x \in DOMAIN mdCalls : mdCalls[x].pc = "sleep" } }

RouteTick ==
    /\ \E t \in RouteInstants : t > now /\ t <= RouteMaxTime /\ now' = t
    /\ UNCHANGED <<fetchVars, regVars, started, lib, jsVars, routeVars>>

NextRoutes ==
    \/ \E id \in KlinesCallIds, q \in JsQueries : RouteJsGet(id, q)
    \/ \E id \in KlinesCallIds, resp \in RouteResponses : KlinesRespond(id, resp)
    \/ \E id \in KlinesCallIds : KlinesWake(id)
    \/ \E id \in KlinesCallIds : RouteJsReply(id)
    \/ \E id \in MdCallIds, q \in TsQueries : RouteTsGet(id, q)
    \/ \E id \in MdCallIds, resp \in RouteResponses, rnd \in PollDraws : MdRespond(id, resp, rnd)
    \/ \E id \in MdCallIds : MdWake(id)
    \/ \E id \in MdCallIds : RouteTsReply(id)
    \/ RouteTick

SpecRoutes == Init /\ [][NextRoutes]_vars

----------------------------------------------------------------------------
(* The resolvers on the symbols of their tables, on the ids of their tables and on
   symbols outside them *)

NextResolve ==
    \/ \E resolver \in Resolvers : \E symbol \in ResolveInputs(resolver) : Resolve(resolver, symbol)
    \/ ResolveAgain

SpecResolve == Init /\ [][NextResolve]_vars

----------------------------------------------------------------------------
(* The fetch entry points against an upstream that limits the rate: 429 responses with
   and without a Retry-After header *)

RateSymbols == {"SOL"}

RateResponses ==
    { [rejects |-> TRUE, status |-> 0, retryAfter |-> NoHeader, body |-> NoBody] }
    \cup { [rejects |-> FALSE, status |-> 429, retryAfter |-> h, body |-> NoBody] :
             h \in {NoHeader, "1", "2"} }
    \cup { [rejects |-> FALSE, status |-> 200, retryAfter |-> NoHeader,
            body |-> [parses |-> TRUE, success |-> TRUE, hasData |-> TRUE, itemsIsArray |-> TRUE,
                      items |-> ItemsA]] }

RateTick ==
    /\ \E t \in RouteInstants : t > now /\ t <= RateMaxTime /\ now' = t
    /\ UNCHANGED <<fetchVars, regVars, started, lib, jsVars, routeVars>>

NextRateLimit ==
    \/ \E id \in KlinesCallIds, s \in RateSymbols, r \in Requests : KlinesCall(id, s, r[1], r[2])
    \/ \E id \in KlinesCallIds, resp \in RateResponses : KlinesRespond(id, resp)
    \/ \E id \in KlinesCallIds : KlinesWake(id)
    \/ \E id \in KlinesCallIds : KlinesReturn(id)
    \/ \E id \in MdCallIds, s \in RateSymbols, r \in Requests : MdCall(id, s, r[1], r[2])
    \/ \E id \in MdCallIds, resp \in RateResponses, rnd \in PollDraws : MdRespond(id, resp, rnd)
    \/ \E id \in MdCallIds : MdWake(id)
    \/ \E id \in MdCallIds : MdReturn(id)
    \/ RateTick

SpecRateLimit == Init /\ [][NextRateLimit]_vars

----------------------------------------------------------------------------
(* Vocabulary of the properties *)

JsCall(id) == calls[id]
TsCall(id) == mdCalls[id]

(* the retry loop of the invocation ran out: every upstream attempt failed *)
Exhausted(c) == c.pc = "done" /\ c.attempt >= 3

HadEntry(c) == c.entry0 # <<>>
AgeAtStart(c) == c.startedAt - c.entry0[1].timestamp

IsUnsupported(msg) == Len(msg) >= 18 /\ SubSeq(msg, 1, 18) = "Unsupported symbol"

CanonicalIds == { getTokenAddress(s) : s \in RawSymbols } \ {null}

KeysOf(tokenAddress) == { CacheKey(tokenAddress, r[1], r[2]) : r \in Requests }

----------------------------------------------------------------------------
(* C1 -- Stale fallback: when an entry for the key of a fetchBirdseyeKlines call exists and
   is expired at the time of the call and every upstream attempt of the call fails, the
   call returns exactly the candle batch of that entry and does not throw. *)
C1_StaleFallback ==
    \A id \in KlinesCallIds :
        LET c == JsCall(id) IN
        (Exhausted(c) /\ HadEntry(c) /\ AgeAtStart(c) >= 300000)
            => /\ c.result.status = "ok"
               /\ c.result.data = c.entry0[1].data

C1_Witness ==
    \E id \in KlinesCallIds :
        LET c == JsCall(id) IN
        /\ Exhausted(c) /\ HadEntry(c) /\ AgeAtStart(c) >= 300000
        /\ c.reqs = 3
        /\ c.result.via = "stale-cache"
        /\ Len(c.result.data) > 0

(* C2 -- Hard failure: when no entry exists for the key and every upstream attempt fails,
   fetchBirdseyeKlines throws an upstream error and returns no candle batch. *)
C2_HardFailure ==
    \A id \in KlinesCallIds :
        LET c == JsCall(id) IN
        (Exhausted(c) /\ ~HadEntry(c))
            => /\ c.result.status = "error"
               /\ c.result.data = <<>>
               /\ ~IsUnsupported(c.result.error)

C2_Witness ==
    \E id \in KlinesCallIds :
        LET c == JsCall(id) IN
        /\ Exhausted(c) /\ ~HadEntry(c)
        /\ c.reqs = 3
        /\ c.result.status = "error"

(* C3 -- Unsupported symbol: a call whose symbol the resolver cannot resolve ends, in the
   step that makes it, with the unsupported-symbol error; it issues no upstream request,
   waits for nothing, and leaves the cache (and the clock) as they were.  Stated for the
   fetch entry point of both builds. *)
C3_UnsupportedSymbol ==
    [][ /\ \A id \in KlinesCallIds :
              (calls[id].pc = "idle" /\ calls'[id].pc # "idle"
                 /\ getTokenAddress(calls'[id].symbol) = null)
              => /\ calls'[id].pc = "done"
                 /\ calls'[id].result.status = "error"
                 /\ IsUnsupported(calls'[id].result.error)
                 /\ calls'[id].reqs = 0
                 /\ cache' = cache
                 /\ now' = now
        /\ \A id \in MdCallIds :
              (mdCalls[id].pc = "idle" /\ mdCalls'[id].pc # "idle"
                 /\ getMintAddress(mdCalls'[id].symbol) = null)
              => /\ mdCalls'[id].pc = "done"
                 /\ mdCalls'[id].result.status = "error"
                 /\ IsUnsupported(mdCalls'[id].result.error)
                 /\ mdCalls'[id].reqs = 0
                 /\ responseCache' = responseCache
                 /\ now' = now ]_vars

C3_Witness ==
    \E id \in KlinesCallIds :
        LET c == JsCall(id) IN
        /\ c.pc = "done"
        /\ getTokenAddress(c.symbol) = null
        /\ IsUnsupported(c.result.error)
        /\ c.reqs = 0
        /\ DOMAIN cache # {}

(* C4 -- TTL boundary: for an entry written at time T, a call for the same key made at
   time t with t - T < 300000 returns the cached batch without an upstream request; a
   call with t - T >= 300000 issues at least one upstream request before it returns. *)
C4_TtlBoundary ==
    \A id \in KlinesCallIds :
        LET c == JsCall(id) IN
        (c.pc # "idle" /\ HadEntry(c))
            => /\ AgeAtStart(c) < 300000
                    => /\ c.pc = "done"
                       /\ c.reqs = 0
                       /\ c.result.status = "ok"
                       /\ c.result.data = c.entry0[1].data
               /\ AgeAtStart(c) >= 300000 => c.reqs >= 1

C4_Witness ==
    \E id \in KlinesCallIds :
        LET c == JsCall(id) IN
        /\ c.pc # "idle" /\ HadEntry(c)
        /\ AgeAtStart(c) = 300000
        /\ c.reqs >= 1

(* C5 -- Retry budget: an invocation never issues more than 3 upstream requests, each
   attempt issues exactly one, an invocation that gives up (throws the upstream error,
   or falls back to the stale entry or, in the TypeScript build, to mock data) has issued
   exactly 3, and the successful request is the last one. *)
C5_RetryBudget ==
    /\ \A id \in KlinesCallIds :
          LET c == JsCall(id) IN
          /\ c.reqs <= 3
          /\ c.pc \in {"fetch", "sleep"} => c.reqs = c.attempt + 1
          /\ (c.pc = "done" /\ c.result.via = "upstream") => c.reqs = c.attempt + 1
          /\ (c.pc = "done" /\ c.result.via = "stale-cache") => c.reqs = 3
          /\ (c.pc = "done" /\ c.result.status = "error" /\ ~IsUnsupported(c.result.error))
                => c.reqs = 3
    /\ \A id \in MdCallIds :
          LET c == TsCall(id) IN
          /\ c.reqs <= 3
          /\ c.pc \in {"fetch", "sleep"} => c.reqs = c.attempt + 1
          /\ (c.pc = "done" /\ c.result.via = "upstream") => c.reqs = c.attempt + 1
          /\ (c.pc = "done" /\ c.result.via = "mock") => c.reqs = 3

C5_Witness ==
    \E id \in KlinesCallIds :
        LET c == JsCall(id) IN
        /\ c.pc = "done"
        /\ c.result.status = "error"
        /\ c.lastError = ""
        /\ c.reqs = 3

(* C6 -- Cache key determinism: a call whose key holds a fresh entry that a call with
   another raw symbol of the same canonical id wrote returns that entry's batch without
   an upstream request; every key of the cache is built from a canonical id, an interval
   and a limit. *)
C6_KeyDeterminism ==
    /\ \A id \in KlinesCallIds :
          LET c == JsCall(id) IN
          (c.pc # "idle" /\ HadEntry(c) /\ AgeAtStart(c) < 300000
             /\ c.entry0[1].data # <<>> /\ c.entry0[1].data[1].symbol # c.symbol)
              => /\ c.pc = "done"
                 /\ c.reqs = 0
                 /\ c.result.data = c.entry0[1].data
    /\ DOMAIN cache \subseteq UNION { KeysOf(a) : a \in CanonicalIds }

C6_Witness ==
    \E id \in KlinesCallIds :
        LET c == JsCall(id) IN
        /\ c.pc = "done" /\ HadEntry(c) /\ AgeAtStart(c) < 300000
        /\ c.symbol = SOL_ADDRESS
        /\ c.entry0[1].data # <<>> /\ c.entry0[1].data[1].symbol = "SOL"
        /\ c.reqs = 0
        /\ c.result.data = c.entry0[1].data

(* C7 as stated -- once a call for a symbol has succeeded (the cache holds an entry of its
   canonical id), a later call for that symbol whose upstream attempts all fail returns
   data, for any interval and limit. *)
C7_AnyIntervalAndLimit ==
    \A id \in KlinesCallIds :
        LET c == JsCall(id) IN
        (Exhausted(c) /\ getTokenAddress(c.symbol) # null
           /\ DOMAIN cache \cap KeysOf(getTokenAddress(c.symbol)) # {})
            => c.result.status = "ok"

(* C7 amended -- once a call for a symbol, interval and limit has succeeded (the cache
   holds the entry of that key when the later call is made), a later call for the same
   canonical id, interval and limit never fails: it returns a candle batch also when every
   upstream attempt fails. *)
C7_SameKeyNeverFails ==
    \A id \in KlinesCallIds :
        LET c == JsCall(id) IN
        (c.pc = "done" /\ HadEntry(c)) => c.result.status = "ok"

C7_Witness ==
    \E id \in KlinesCallIds :
        LET c == JsCall(id) IN
        /\ Exhausted(c) /\ HadEntry(c)
        /\ c.lastError # ""
        /\ c.result.status = "ok"
        /\ c.entry0[1].data # <<>> /\ c.entry0[1].data[1].symbol # c.symbol

(* C8 -- Registry invariant: after every addSubscription and removeSubscription a symbol is
   in activePolling if and only if the subscriptions map holds a non-empty set for it. *)
C8_PollingIffListeners ==
    \A s \in RegSymbols :
        s \in activePolling <=> (s \in DOMAIN subscriptions /\ subscriptions[s] # {})

C8_Witness ==
    /\ "SOL" \in activePolling
    /\ subscriptions["SOL"] = Subs
    /\ "XYZ" \notin activePolling
    /\ Live("XYZ") # {}

(* C9 -- No duplicate poll loops: each symbol has at most one live poll chain (a pending
   poll timer or a poll in flight) in every reachable state. *)
C9_OneChainPerSymbol ==
    \A s \in RegSymbols : Cardinality(Live(s)) <= 1

(* C10 -- Concurrent adds: an addSubscription for an idle symbol (no listeners, no chain)
   starts exactly one poll chain; while the symbol keeps listeners no step starts or ends
   a chain of it, so a second addSubscription, also one made while the first poll's fetch
   is in flight, starts none; an addSubscription keeps the listeners already in the set. *)
C10_AddsStartOneLoop ==
    [][ \A s \in RegSymbols :
          /\ (s \in DOMAIN subscriptions' /\ ~(subscriptions'[s] \subseteq getSubscriptions(subscriptions, s)))
                => /\ getSubscriptions(subscriptions, s) \subseteq subscriptions'[s]
                   /\ (s \notin DOMAIN subscriptions /\ Live(s) = {})
                         => Cardinality(LiveIn(chains', s)) = 1
          /\ (s \in DOMAIN subscriptions /\ s \in DOMAIN subscriptions')
                => LiveIn(chains', s) = Live(s) ]_vars

C10_Witness ==
    /\ "SOL" \in DOMAIN subscriptions
    /\ subscriptions["SOL"] = Subs
    /\ Cardinality(Live("SOL")) = 1
    /\ \E ch \in Live("SOL") : chains[ch].pc = "fetching" /\ chains[ch].call.reqs = 1
    /\ \A ch \in ChainIds : chains[ch].pc # "free" => chains[ch].symbol = "SOL"
    /\ responseCache = << >>

----------------------------------------------------------------------------
(* Vocabulary of the claims about the registry of the compiled library *)

Members(seq) == { seq[i] : i \in 1..Len(seq) }

(* the listeners of a symbol in a subscriptions Map *)
ListenersOf(subsMap, symbol) == IF symbol \in DOMAIN subsMap THEN subsMap[symbol] ELSE << >>

(* the interval timers whose snapshot holds the symbol *)
TimersOf(symbol) == { tm \in timers : Has(tm.symbols, symbol) }

(* the suspended callbacks that poll the symbol now or will poll it later in their loop *)
TicksOf(symbol) ==
    { k \in TickIds : /\ ticks[k].pc = "await"
                      /\ \E i \in ticks[k].idx..Len(ticks[k].symbols) : ticks[k].symbols[i] = symbol }

(* C11 -- No lingering empty sets: no symbol of the registry maps to an empty listener
   set, and the symbols with an entry are exactly the symbols marked active, so that the
   removal of a symbol's last listener drops the entry and the mark in one step. *)
C11_NoEmptySets ==
    /\ \A symbol \in DOMAIN subscriptions : Len(subscriptions[symbol]) > 0
    /\ Members(activeSymbols) = DOMAIN subscriptions
    /\ \A symbol \in DOMAIN subscriptions : \A sub \in Members(subscriptions[symbol]) :
          LET R == JsRemoveSubscription(Registry, symbol, sub, now) IN
          Len(subscriptions[symbol]) = 1
              => symbol \notin DOMAIN R.subscriptions /\ ~Has(R.activeSymbols, symbol)

(* the last listener of SOL was removed while a callback that polls SOL is suspended *)
C11_Witness ==
    /\ DOMAIN subscriptions = {"XYZ"}
    /\ activeSymbols = <<"XYZ">>
    /\ \E k \in TickIds : ticks[k].pc = "await" /\ ticks[k].symbols = <<"SOL", "XYZ">>
    /\ \E tm \in timers : tm.symbols = <<"XYZ">>

(* C12 -- Unsubscribe is idempotent: in every reachable state removeSubscription for a
   listener that is not registered for the symbol (removed before, never added, or an
   unknown symbol) leaves listener sets, active marks, the timer handle and the timers
   as they are, also while other listeners are registered for that symbol. *)
C12_RemoveIdempotent ==
    \A symbol \in JsSymbols \cup {"BONK"}, sub \in Subs :
        ~Has(JsGetSubscriptions(Registry, symbol), sub)
            => JsRemoveSubscription(Registry, symbol, sub, now) = Registry

(* listener b of SOL is gone, listener a remains, and the timer armed at 0 is pending at a
   later time, so that a restart would show *)
C12_Witness ==
    /\ "SOL" \in DOMAIN subscriptions
    /\ subscriptions["SOL"] = <<"a">>
    /\ \E k \in TickIds : ticks[k].pc = "await" /\ ticks[k].symbols = <<"SOL">>
    /\ now > 0
    /\ \E tm \in timers : tm.id = updateInterval /\ tm.dueAt # now + 30000

(* C13 -- Disconnect cleanup: once the disconnect event of a connection has been handled,
   no listener set of the registry holds a subscription created by that connection,
   whatever market:subscribe and market:unsubscribe events came before; a symbol without
   listeners has no entry, no active mark and is in the snapshot of no interval timer. *)
C13_DisconnectCleanup ==
    /\ \A conn \in DOMAIN sockets :
          sockets[conn].state = "closed"
              => \A symbol \in DOMAIN subscriptions : \A sub \in Members(subscriptions[symbol]) :
                    ~CreatedBy(sub, conn)
    /\ \A symbol \in JsSymbols :
          (\A conn \in DOMAIN sockets :
              sockets[conn].state = "open"
                  => \A i \in 1..Len(sockets[conn].handlers) :
                        ~(/\ sockets[conn].handlers[i].symbol = symbol
                          /\ Has(JsGetSubscriptions(Registry, symbol), sockets[conn].handlers[i].sub)))
              => /\ symbol \notin DOMAIN subscriptions
                 /\ ~Has(activeSymbols, symbol)
                 /\ TimersOf(symbol) = {}

(* s1 subscribed twice to SOL and disconnected while its poll was in flight; s2 never
   subscribed to SOL *)
C13_Witness ==
    /\ "s1" \in DOMAIN sockets
    /\ sockets["s1"].state = "closed"
    /\ Len(sockets["s1"].handlers) = 2
    /\ \A i \in 1..2 : sockets["s1"].handlers[i].symbol = "SOL"
    /\ \E k \in TickIds : ticks[k].pc = "await" /\ ticks[k].symbols = <<"SOL">>
    /\ "SOL" \notin DOMAIN subscriptions
    /\ timers = {}

(* C14 -- A failed poll never ends the loop or changes the listener set: a step in which
   the fetch of a symbol's poll throws, or a callback of its fanout pass throws, leaves
   the listener set of the symbol as it was, and if the symbol has a listener exactly one
   interval timer is pending, it is the one updateInterval names, and its snapshot holds
   the symbol. *)
C14_FailedPollKeepsLoop ==
    [][ \A i \in 1..Len(fanout') :
          LET o == fanout'[i] IN
          (o.status = "failed" \/ o.raised)
              => /\ ListenersOf(subscriptions', o.symbol) = ListenersOf(subscriptions, o.symbol)
                 /\ o.symbol \in DOMAIN subscriptions'
                       => /\ Cardinality(timers') = 1
                          /\ \A tm \in timers' : tm.id = updateInterval' /\ Has(tm.symbols, o.symbol)
      ]_vars

(* the poll of SOL gave up after its attempts with no cache entry to fall back on, and
   SOL still has its listener *)
C14_Witness ==
    /\ Len(fanout) = 1
    /\ fanout[1].symbol = "SOL"
    /\ fanout[1].status = "failed"
    /\ "SOL" \in DOMAIN subscriptions
    /\ cache = << >>
    /\ Cardinality(timers) = 1

(* C15 -- Loop termination: a symbol without listeners is in the snapshot of no pending
   interval timer; if its last listener has been removed then, unless a listener is
   added for it again, eventually no suspended callback has a poll of the symbol before
   it, and from then on no fetch for the symbol is started while it has no listener. *)
C15_LoopTerminates ==
    /\ [](\A symbol \in JsSymbols : symbol \notin DOMAIN subscriptions => TimersOf(symbol) = {})
    /\ \A symbol \in JsSymbols :
          (symbol \notin DOMAIN subscriptions)
              ~> (symbol \in DOMAIN subscriptions \/ TicksOf(symbol) = {})
    /\ [][ \A symbol \in JsSymbols :
              (symbol \notin DOMAIN subscriptions /\ symbol \notin DOMAIN subscriptions'
               /\ TicksOf(symbol) = {}) => TicksOf(symbol)' = {} ]_vars

(* XYZ lost its last listener while the callback that will poll it after SOL is suspended *)
C15_Witness ==
    /\ "XYZ" \notin DOMAIN subscriptions
    /\ TimersOf("XYZ") = {}
    /\ \E k \in TicksOf("XYZ") : ticks[k].symbols = <<"SOL", "XYZ">> /\ ticks[k].idx = 1

NoDuplicates(seq) == \A i \in 1..Len(seq) : \A j \in 1..Len(seq) : seq[i] = seq[j] => i = j

(* C16 -- Subscription lifecycle and fanout: every poll that returns a candle delivers it
   once to each listener registered for the symbol and to no one else (a listener that
   is still registered after the pass has received it), and a symbol with a listener has
   exactly one pending interval timer that polls it. *)
C16_FanoutToEveryListener ==
    /\ \A i \in 1..Len(fanout) :
          LET o == fanout[i] IN
          o.status = "emitted"
              => /\ NoDuplicates(o.got)
                 /\ Members(o.got) \subseteq Members(o.order)
                 /\ \A sub \in Members(o.order) :
                       sub \in Members(ListenersOf(subscriptions, o.symbol))
                           => sub \in Members(o.got)
    /\ \A symbol \in DOMAIN subscriptions : Cardinality(TimersOf(symbol)) = 1

(* C17 -- Fanout isolation: when the callback of one listener throws during a pass, every
   other listener registered for the symbol still receives the candle in that pass. *)
C17_FanoutIsolation ==
    \A i \in 1..Len(fanout) :
        LET o == fanout[i] IN
        (o.status = "emitted" /\ o.raised) => Members(o.got) = Members(o.order)

(* C18 -- No delivery after removal: every listener a pass delivers to was registered for
   the symbol when the step of the pass began (a listener removed while the fetch was in
   flight gets nothing); a listener that a callback of the pass removes gets nothing
   after the removal, the pass does not fail, and every other listener of the symbol
   gets the candle. *)
C18_NoDeliveryAfterRemoval ==
    [][ \A i \in 1..Len(fanout') :
          LET o == fanout'[i] IN
          o.status = "emitted"
              => /\ Members(o.got) \subseteq Members(ListenersOf(subscriptions, o.symbol))
                 /\ \A r \in Members(o.removal) :
                       /\ \A n \in 1..Len(o.got) : n > r.after => o.got[n] # r.sub
                       /\ ~o.raised
                       /\ Members(o.order) \ {r.sub} \subseteq Members(o.got)
      ]_vars

(* the callback of listener a removed listener b before b's turn *)
C18_Witness ==
    /\ Len(fanout) = 1
    /\ fanout[1].status = "emitted"
    /\ fanout[1].order = <<"a", "b">>
    /\ fanout[1].got = <<"a">>
    /\ fanout[1].removal = <<[sub |-> "b", after |-> 1]>>
    /\ subscriptions["SOL"] = <<"a">>


(* the cache key an invocation computed on entry *)
KeyOfCall(c) == CacheKey(getTokenAddress(c.symbol), c.interval, c.limit)

(* the invocations whose upstream request for the key is in flight *)
InFlight(key) == { id \in DOMAIN calls : calls[id].pc = "fetch" /\ KeyOfCall(calls[id]) = key }

(* C19 -- Single-flight: the number of upstream requests in flight for one cache key never
   exceeds one. *)
C19_SingleFlight ==
    \A a \in CanonicalIds : \A key \in KeysOf(a) : Cardinality(InFlight(key)) <= 1

(* C20 -- No cache corruption under concurrency: a step changes at most one cache entry,
   and only to the complete transformed batch of the response that one invocation for
   that key received in this step, stamped with the time of the step; no entry is
   removed; so every entry is at all times the batch of one response for its key. *)
C20_EntriesAreWholeBatches ==
    [][ /\ DOMAIN cache \subseteq DOMAIN cache'
        /\ \A key \in DOMAIN cache' :
              (key \notin DOMAIN cache \/ cache'[key] # cache[key])
                  => /\ \A other \in DOMAIN cache : other # key => cache'[other] = cache[other]
                     /\ DOMAIN cache' \subseteq DOMAIN cache \cup {key}
                     /\ \E id \in InFlight(key) : \E resp \in ConcResponses :
                           /\ ~resp.rejects
                           /\ cache'[key] = [data |-> Transform(resp.body.items, calls[id].symbol,
                                                                calls[id].interval),
                                             timestamp |-> now]
                           /\ calls'[id].result = Returned(cache'[key].data, "upstream")
      ]_vars

(* two invocations for one key were in flight together with no entry stored, received
   different batches, and the entry is the whole batch of the one that settled last *)
C20_Witness ==
    /\ calls["r1"].pc = "done" /\ calls["r2"].pc = "done"
    /\ KeyOfCall(calls["r1"]) = KeyOfCall(calls["r2"])
    /\ calls["r1"].entry0 = << >> /\ calls["r2"].entry0 = << >>
    /\ calls["r1"].result.via = "upstream" /\ calls["r2"].result.via = "upstream"
    /\ calls["r1"].result.data # calls["r2"].result.data
    /\ cache[KeyOfCall(calls["r2"])].data = calls["r2"].result.data
    /\ DOMAIN cache = {KeyOfCall(calls["r2"])}


(* the times at which the pending interval timers poll the symbol next *)
NextTickOf(tms, symbol) == { tm.dueAt : tm \in { x \in tms : Has(x.symbols, symbol) } }

(* what a registry holds about one symbol: listeners, polling mark, poll schedule *)
SymbolView(R, symbol) ==
    [listeners |-> JsGetSubscriptions(R, symbol),
     active |-> Has(R.activeSymbols, symbol),
     nextTick |-> NextTickOf(R.timers, symbol)]

(* C21 -- Per-symbol independence: addSubscription or removeSubscription for symbol A
   leaves the listener set, the polling mark and the time of the next tick of every
   other symbol B with listeners unchanged. *)
C21_PerSymbolIndependence ==
    \A A \in JsSymbols : \A B \in DOMAIN subscriptions : \A sub \in Subs :
        A # B =>
            /\ SymbolView(JsAddSubscription(Registry, A, sub, now), B) = SymbolView(Registry, B)
            /\ SymbolView(JsRemoveSubscription(Registry, A, sub, now), B) = SymbolView(Registry, B)


(* the text is an integer in [1, 1000] *)
IsLimitInRange(text) ==
    /\ Len(text) > 0
    /\ \A i \in 1..Len(text) : DigitVal(SubSeq(text, i, i)) >= 0
    /\ ParseInt(text).val >= 1 /\ ParseInt(text).val <= 1000

(* C22 -- Limit bounds at the boundary: a request that carries a limit that is not an
   integer in [1, 1000] is answered with a client error and is not handed to the core,
   and no invocation of the core of a route has a limit outside [1, 1000]. *)
C22_LimitRejectedAtBoundary ==
    /\ \A id \in RouteIds :
          (http[id].pc # "idle" /\ http[id].query.limit # "" /\ ~IsLimitInRange(http[id].query.limit))
              => (http[id].pc = "replied" /\ http[id].status \in 400..499
                  /\ http[id].outcome = NoResult)
    /\ \A id \in KlinesCallIds : calls[id].pc # "idle" => calls[id].limit \in 1..1000
    /\ \A id \in MdCallIds : mdCalls[id].pc # "idle" => mdCalls[id].limit \in 1..1000

(* C23 -- Error mapping at the boundary: a request whose core call failed with an
   unsupported symbol is answered with a 4xx status, one whose core call failed
   otherwise with a 5xx status, and no failed core call with a 2xx status. *)
C23_ErrorMapping ==
    \A id \in RouteIds :
        (http[id].pc = "replied" /\ http[id].outcome.status = "error")
            => /\ IsUnsupported(http[id].outcome.error) => http[id].status \in 400..499
               /\ ~IsUnsupported(http[id].outcome.error) => http[id].status \in 500..599
               /\ http[id].status \notin 200..299


(* C24 -- Resolution idempotence: when a resolver has resolved a raw symbol to an id,
   resolving that id gives the same id again, and a mint address of the static table
   resolves to itself. *)
C24_ResolutionIdempotent ==
    /\ resolved.again # << >> => resolved.again[1] = resolved.id
    /\ (resolved.resolver \in {"getTokenAddress", "getMintAddress"}
        /\ resolved.input \in MintAddresses) => resolved.id = resolved.input

(* a trading pair was resolved to an id of the table, and the id then to itself *)
C24_Witness ==
    /\ resolved.resolver = "getCoinGeckoId"
    /\ resolved.input = "BTCUSDT"
    /\ resolved.id = "bitcoin"
    /\ resolved.again = <<"bitcoin">>


(* the step from c to d ends an attempt of the invocation with a failure other than a
   429 response *)
FailsAttempt(c, d) ==
    /\ c.pc = "fetch"
    /\ d.pc # "fetch" \/ d.attempt # c.attempt
    /\ ~(d.pc = "done" /\ d.result.via = "upstream")
    /\ ~(d.pc = "sleep" /\ d.after429)
    /\ d.lastError # "Birdseye API error: 429"

(* the invocation d waits ms milliseconds from time t on *)
Waits(d, t, ms) == d.pc = "sleep" /\ d.wakeAt = t + ms

(* C25 as stated -- Exponential backoff: after a non-429 failure of attempt k, for k = 0,
   1 and 2, the fetcher waits 2^k seconds. *)
C25_BackoffAfterEveryAttempt ==
    [][ /\ \A id \in DOMAIN calls :
              FailsAttempt(calls[id], calls'[id])
                  => Waits(calls'[id], now, Pow2(calls[id].attempt) * 1000)
        /\ \A id \in DOMAIN mdCalls :
              FailsAttempt(mdCalls[id], mdCalls'[id])
                  => Waits(mdCalls'[id], now, Pow2(mdCalls[id].attempt) * 1000)
      ]_vars

BacksOff(c, d, t) ==
    /\ FailsAttempt(c, d)
          => /\ c.attempt \in 0..2
             /\ c.attempt < 2 => Waits(d, t, Pow2(c.attempt) * 1000)
             /\ c.attempt = 2 => d.pc = "done"
    /\ (c.pc = "fetch" /\ d.pc = "sleep" /\ ~d.after429)
          => d.wakeAt - t = (IF c.attempt = 0 THEN 1000 ELSE 2000)

(* C25 -- Exponential backoff: after a non-429 failure of attempt 0 the fetcher waits 1 s
   and after one of attempt 1 it waits 2 s before the next attempt; after a failure of
   attempt 2, the last one, it does not wait but ends the call at once; it never waits
   another amount for a non-429 failure. *)
C25_BackoffBetweenAttempts ==
    [][ /\ \A id \in DOMAIN calls : BacksOff(calls[id], calls'[id], now)
        /\ \A id \in DOMAIN mdCalls : BacksOff(mdCalls[id], mdCalls'[id], now)
      ]_vars

(* an invocation waited 1 s and 2 s and ended with the failure of its third attempt *)
C25_Witness ==
    \E id \in KlinesCallIds :
        /\ calls[id].pc = "done"
        /\ calls[id].result.status = "error"
        /\ calls[id].lastError # ""
        /\ calls[id].waits = 2
        /\ calls[id].reqs = 3
        /\ now = calls[id].startedAt + 3000


(* the seconds a Retry-After header of the upstream asks for, 60 without a header *)
SecondsAsked(resp) ==
    CASE resp.retryAfter = NoHeader -> 60
      [] resp.retryAfter = "1" -> 1
      [] resp.retryAfter = "2" -> 2

(* the invocation c receives a 429 and becomes d, which waits as the response asks *)
WaitsAsAsked(c, d, resp, t) ==
    /\ Waits(d, t, SecondsAsked(resp) * 1000)
    /\ d.after429
    /\ d.attempt = c.attempt
    /\ d.result = NoResult

(* the wait of c after a 429 is over and c becomes d *)
TriesAgain(c, d) ==
    (c.after429 /\ c.attempt < 2)
        => (d.pc = "fetch" /\ d.attempt = c.attempt + 1 /\ d.reqs = c.reqs + 1)

(* C26 -- Rate-limit handling: while attempts remain, a 429 response makes the fetcher
   wait the seconds of the Retry-After header, 60 s when there is none, without ending
   the call and without touching the cache; when the wait is over it makes the next
   attempt, which counts against the budget of 3. *)
C26_RateLimitWait ==
    [][ /\ \A id \in KlinesCallIds : \A resp \in RateResponses :
              (resp.status = 429 /\ KlinesRespond(id, resp))
                  => (calls[id].attempt < 2
                        => (WaitsAsAsked(calls[id], calls'[id], resp, now) /\ cache' = cache))
        /\ \A id \in MdCallIds : \A resp \in RateResponses : \A rnd \in PollDraws :
              (resp.status = 429 /\ MdRespond(id, resp, rnd))
                  => (mdCalls[id].attempt < 2
                        => (WaitsAsAsked(mdCalls[id], mdCalls'[id], resp, now)
                            /\ responseCache' = responseCache))
        /\ \A id \in KlinesCallIds : KlinesWake(id) => TriesAgain(calls[id], calls'[id])
        /\ \A id \in MdCallIds : MdWake(id) => TriesAgain(mdCalls[id], mdCalls'[id])
      ]_vars

(* a 429 without a header, then one asking for 1 s: the third attempt starts at 61 s *)
C26_Witness ==
    \E id \in KlinesCallIds :
        /\ calls[id].pc = "fetch"
        /\ calls[id].attempt = 2
        /\ calls[id].lastError = ""
        /\ now = calls[id].startedAt + 61000


(* the error a failed upstream response of the rate-limiting upstream stands for *)
FailureOf(resp) ==
    IF resp.rejects THEN "fetch failed" ELSE "Birdseye API error: " \o ToString(resp.status)

(* C27 -- Last observed error: a call without a cache entry whose attempts all failed
   raises the error of its final attempt: when the call ends as the response of the
   final attempt arrives, the error of that response, and when it ends after the wait
   that followed a 429 of the final attempt, an error that names the 429. *)
C27_LastObservedError ==
    [][ \A id \in KlinesCallIds :
          LET c == calls[id]
              d == calls'[id]
          IN  (c.pc # "done" /\ Exhausted(d) /\ d.result.status = "error")
                  => IF c.pc = "sleep" THEN Includes(d.result.error, "429")
                     ELSE \E resp \in RateResponses :
                             KlinesRespond(id, resp) /\ d.result.error = FailureOf(resp)
      ]_vars


(* C28 -- Empty or invalid payload is a failure: no fetch returns a batch of zero candles
   that came from the upstream as a success, and no cache entry holds a batch of zero
   candles. *)
C28_NoEmptyBatch ==
    /\ \A id \in KlinesCallIds :
          (JsCall(id).pc = "done" /\ JsCall(id).result.via = "upstream")
              => Len(JsCall(id).result.data) > 0
    /\ \A id \in MdCallIds :
          (TsCall(id).pc = "done" /\ TsCall(id).result.via = "upstream")
              => Len(TsCall(id).result.data) > 0
    /\ \A key \in DOMAIN cache : Len(cache[key].data) > 0
    /\ \A key \in DOMAIN responseCache : Len(responseCache[key].data) > 0


(* the upstream fetch succeeded: a 2xx response with a valid, non-empty item sequence *)
Succeeds(resp) ==
    /\ ~resp.rejects /\ Ok(resp)
    /\ resp.body.parses /\ resp.body.hasData /\ resp.body.itemsIsArray
    /\ Len(resp.body.items) > 0

(* C29 -- Cache writes only on success: a step changes the cache only as the successful
   upstream response of an invocation arrives, by putting the batch of that response
   under the key of the invocation; an invocation that ends in the stale fallback or in
   an error leaves the cache as it is, and an entry served stale is expired. *)
C29_WritesOnlyOnSuccess ==
    [][ /\ cache' # cache
            => \E id \in KlinesCallIds : \E resp \in Responses :
                  /\ KlinesRespond(id, resp)
                  /\ Succeeds(resp)
                  /\ cache' = Put(cache, KeyOfCall(calls[id]),
                                  [data |-> Transform(resp.body.items, calls[id].symbol,
                                                      calls[id].interval),
                                   timestamp |-> now])
        /\ \A id \in KlinesCallIds :
              (calls[id].pc # "done" /\ calls'[id].pc = "done"
               /\ calls'[id].result.via \in {"stale-cache", "throw"})
                  => /\ cache' = cache
                     /\ calls'[id].result.via = "stale-cache"
                           => ~IsFresh(cache'[KeyOfCall(calls'[id])], now)
      ]_vars


(* C30 -- Candle provenance: no candle that fetchMarketData returns, that the response
   cache holds or that a poll delivers to the listeners is synthetic: each was mapped
   from a response of the upstream. *)
C30_NoSyntheticCandle ==
    /\ \A id \in MdCallIds :
          \A i \in 1..Len(TsCall(id).result.data) : ~TsCall(id).result.data[i].synthetic
    /\ \A key \in DOMAIN responseCache :
          \A i \in 1..Len(responseCache[key].data) : ~responseCache[key].data[i].synthetic
    /\ \A i \in 1..Len(lastEmit.candle) : ~lastEmit.candle[i].synthetic

(* the request the interval callback makes for a symbol: fetchBirdseyeKlines(symbol, '1m', 1) *)
IsPollRequest(c) == c.interval = "1m" /\ c.limit = 1

(* C31 -- Poll TTL: the entry of the poll's request (interval '1m', limit 1) stops being
   fresh strictly before the 5 minutes of the historical requests are over: a call for
   that request made 299999 ms or more after the entry was written is not answered from
   the entry but issues an upstream request. *)
C31_PollTtlShorter ==
    \A id \in KlinesCallIds :
        LET c == JsCall(id) IN
        (c.pc # "idle" /\ HadEntry(c) /\ IsPollRequest(c) /\ AgeAtStart(c) >= CACHE_TTL - 1)
            => c.reqs >= 1

----------------------------------------------------------------------------
(* The interval callback over two symbols that both resolve to a token address. *)

PollSymbols == {"SOL", "BONK"}

(* the compiled registry with listeners on two supported symbols; the callbacks of the
   subscriptions return normally *)
NextJsPoll ==
    \/ \E symbol \in PollSymbols, sub \in Subs : JsAdd(symbol, sub)
    \/ \E symbol \in PollSymbols, sub \in Subs : JsRemove(symbol, sub)
    \/ \E id \in TimerIds : IntervalFire(id, NoFault)
    \/ \E k \in TickIds, resp \in JsLiveResponses : TickRespond(k, resp, NoFault)
    \/ \E k \in TickIds : TickWake(k, NoFault)
    \/ JsTick

SpecJsPoll == InitJs /\ [][NextJsPoll]_vars

(* the callback in slot k is suspended in a wait of the fetch it awaits *)
InBackoff(k) == ticks[k].pc = "await" /\ ticks[k].call.pc = "sleep"

(* the symbols the callback in slot k polls after the one it is at *)
PollsBehind(k) == { ticks[k].symbols[i] : i \in (ticks[k].idx + 1)..Len(ticks[k].symbols) }

(* C32 -- Backoff waits are local: a wait of one fetch (exponential backoff or
   Retry-After) holds back nothing but that fetch; in particular no poll of another
   subscribed symbol stands behind a callback that is suspended in such a wait. *)
C32_WaitsAreLocal ==
    \A k \in TickIds :
        InBackoff(k) => \A symbol \in PollsBehind(k) : symbol \notin DOMAIN subscriptions

(* the symbol the callback in slot k is fetching *)
PolledBy(k) == ticks[k].symbols[ticks[k].idx]

(* the step issues an upstream request of the callback in slot k *)
StartsPollFetch(k) ==
    /\ ticks'[k].pc = "await"
    /\ ticks'[k].call.pc = "fetch"
    /\ \/ ticks[k].pc # "await"
       \/ ticks[k].idx # ticks'[k].idx
       \/ ticks[k].call.reqs # ticks'[k].call.reqs

(* C34 -- No polling without listeners: every upstream request of a poll is issued for a
   symbol that has at least one listener at that moment, also in the later iterations of
   a callback that was already running when the symbol's last listener was removed. *)
C34_NoPollWithoutListeners ==
    [][ \A k \in TickIds :
            StartsPollFetch(k) => ticks'[k].symbols[ticks'[k].idx] \in DOMAIN subscriptions'
      ]_vars

(* the callbacks whose poll of the symbol is running: request in flight or in a wait *)
PollsRunning(symbol) == { k \in TickIds : ticks[k].pc = "await" /\ PolledBy(k) = symbol }

(* C35 -- No overlapping polls: at most one poll of a symbol is running at any time; the
   poll of a tick does not start while the poll of an earlier tick for the same symbol is
   still waiting for its response or in a retry or Retry-After wait. *)
C35_NoOverlappingPolls ==
    \A symbol \in PollSymbols : Cardinality(PollsRunning(symbol)) <= 1

----------------------------------------------------------------------------

(* the subscriptions of the connection among the listeners a pass delivered to *)
DeliveriesTo(pass, conn) == { i \in 1..Len(pass.got) : CreatedBy(pass.got[i], conn) }

(* the subscription is a listener of the symbol in the subscriptions Map *)
Listens(subsMap, h) == h.sub \in Members(ListenersOf(subsMap, h.symbol))

(* the connection has a listener registered for the symbol *)
SubscribedTo(conn, symbol) ==
    \E i \in 1..Len(sockets[conn].handlers) :
        sockets[conn].handlers[i].symbol = symbol /\ Listens(subscriptions, sockets[conn].handlers[i])

(* C36 -- Unsubscribe scope: for a connection subscribed to A and B, a market:unsubscribe
   event that names A removes only the connection's listener for A: every listener the
   connection has registered for another symbol B is still registered after the event. *)
C36_UnsubscribeScope ==
    [][ \A conn \in Conns : \A A \in JsSymbols :
            (SocketUnsubscribe(conn, A) /\ SubscribedTo(conn, A))
                => \A i \in 1..Len(sockets[conn].handlers) :
                      LET h == sockets[conn].handlers[i] IN
                      (h.symbol # A /\ Listens(subscriptions, h)) => Listens(subscriptions', h)
      ]_vars

(* C37 -- No duplicate delivery per connection: in one fanout pass a connection is sent
   the candle at most once, however many market:subscribe events it has sent for the
   symbol. *)
C37_OneDeliveryPerConnection ==
    \A i \in 1..Len(fanout) :
        fanout[i].status = "emitted"
            => \A conn \in Conns : Cardinality(DeliveriesTo(fanout[i], conn)) <= 1

(* C38 -- Candle symbol matches the request: every candle of the batch a call returns
   carries the raw symbol of that call, also when the batch comes from a cache entry
   (fresh, or stale after the retries failed) that a call with another raw symbol of the
   same canonical id wrote. *)
C38_CandleSymbolIsRequested ==
    \A id \in KlinesCallIds :
        LET c == JsCall(id) IN
        (c.pc = "done" /\ c.result.status = "ok")
            => \A i \in 1..Len(c.result.data) : c.result.data[i].symbol = c.symbol

----------------------------------------------------------------------------
(* The Binance library (src/lib/market-data.ts): one WebSocket to the combined kline
   streams of the active symbols, opened by addSubscription, replaced by
   removeSubscription and by the reconnect timer *)

LibWs == "src/lib/market-data.ts"

WsSymbols == {"SOLUSDT", "BTCUSDT"}

(* `${s.toLowerCase()}@kline_1m` *)
StreamName(s) == ToLowerCase(s) \o "@kline_1m"

(* symbols.map(s => ...): the streams of the URL the socket is created with *)
StreamsOf(symbols) == [i \in 1..Len(symbols) |-> StreamName(symbols[i])]

(* binanceWs, the sockets, the timers, subscriptions and activeSymbols as one record *)
WsRegistry == [binanceWs |-> binanceWs, webSockets |-> webSockets, reconnects |-> reconnects,
               subscriptions |-> subscriptions, activeSymbols |-> activeSymbols]

(* ws.close(): a socket that is connecting or open starts closing, its close event
   follows; on a socket that is closing or closed the call does nothing *)
WsCloseCall(socks, w) ==
    IF socks[w].readyState \in {"CONNECTING", "OPEN"}
    THEN [socks EXCEPT ![w].readyState = "CLOSING", ![w].closeEvent = TRUE]
    ELSE socks

(* the slots of the sockets that are closed and have no event left *)
FreeSockets(socks) == { w \in WsIds : socks[w] = NoWebSocket }

(* connectBinanceWebSocket(): return if binanceWs is OPEN; return if no symbol is
   active; binanceWs = new WebSocket(url of the streams of activeSymbols) *)
connectBinanceWebSocket(W) ==
    IF W.binanceWs # NoSocket /\ W.webSockets[W.binanceWs].readyState = "OPEN" THEN W
    ELSE IF Len(W.activeSymbols) = 0 THEN W
    ELSE LET free == FreeSockets(W.webSockets) IN
         IF free = {} THEN [W EXCEPT !.binanceWs = NoSlot]
         ELSE LET w == CHOOSE i \in free : \A j \in free : i <= j IN
              [W EXCEPT !.binanceWs = w,
                        !.webSockets[w] = [readyState |-> "CONNECTING",
                                           streams |-> StreamsOf(W.activeSymbols),
                                           closeEvent |-> FALSE]]

(* if (binanceWs) { binanceWs.close(); binanceWs = null } *)
WsDrop(W) ==
    IF W.binanceWs # NoSocket
    THEN [W EXCEPT !.webSockets = WsCloseCall(W.webSockets, W.binanceWs), !.binanceWs = NoSocket]
    ELSE W

(* reconnectWebSocket(): drop the socket, setTimeout(connectBinanceWebSocket, 5000) *)
reconnectWebSocket(W) == [WsDrop(W) EXCEPT !.reconnects = @ + 1]

(* subscriptions.get(symbol) || new Set() *)
WsGetSubscriptions(W, symbol) ==
    IF symbol \in DOMAIN W.subscriptions THEN W.subscriptions[symbol] ELSE << >>

(* addSubscription(symbol, subscription) *)
WsAddSubscription(W, symbol, sub) ==
    LET subs == [k \in DOMAIN W.subscriptions \cup {symbol} |->
                    IF k = symbol THEN SetAdd(WsGetSubscriptions(W, symbol), sub)
                    ELSE W.subscriptions[k]]
    IN  connectBinanceWebSocket([W EXCEPT !.subscriptions = subs,
                                          !.activeSymbols = SetAdd(W.activeSymbols, symbol)])

(* removeSubscription(symbol, subscription) *)
WsRemoveSubscription(W, symbol, sub) ==
    IF symbol \notin DOMAIN W.subscriptions THEN W
    ELSE LET rest == SetDelete(W.subscriptions[symbol], sub) IN
         IF Len(rest) = 0
         THEN connectBinanceWebSocket(
                  WsDrop([W EXCEPT !.subscriptions = [k \in DOMAIN W.subscriptions \ {symbol} |->
                                                         W.subscriptions[k]],
                                   !.activeSymbols = SetDelete(W.activeSymbols, symbol)]))
         ELSE [W EXCEPT !.subscriptions[symbol] = rest]

(* onmessage builds the candle of a kline event: symbol data.s, resolution '1m' *)
WsMarketData(symbol) ==
    [symbol |-> symbol, timestamp |-> 60000, open |-> ParseFloat("10"), high |-> ParseFloat("10"),
     low |-> ParseFloat("10"), close |-> ParseFloat("10"), volume |-> ParseFloat("10"),
     resolution |-> "1m", synthetic |-> FALSE]

(* emitMarketData(symbol, data): the callback of every subscription of the symbol runs *)
WsEmitMarketData(W, symbol, data) ==
    [symbol |-> symbol, status |-> "emitted", candle |-> <<data>>,
     order |-> WsGetSubscriptions(W, symbol), got |-> WsGetSubscriptions(W, symbol),
     raised |-> FALSE, removal |-> << >>]

(* the variables of the Binance library take the values of W; no socket and no timer is
   created beyond the bounds *)
SetWsRegistry(W) ==
    /\ W.binanceWs # NoSlot
    /\ W.reconnects < MaxSockets
    /\ binanceWs' = W.binanceWs
    /\ webSockets' = W.webSockets
    /\ reconnects' = W.reconnects
    /\ subscriptions' = W.subscriptions
    /\ activeSymbols' = W.activeSymbols

(* a caller adds a subscription *)
WsAdd(symbol, sub) ==
    /\ lib = LibWs
    /\ SetWsRegistry(WsAddSubscription(WsRegistry, symbol, sub))
    /\ fanout' = << >>
    /\ UNCHANGED <<now, fetchVars, activePolling, chains, lastEmit, started, lib, updateInterval,
                   timers, ticks, sockets, http, resolved>>

(* a caller removes a subscription *)
WsRemove(symbol, sub) ==
    /\ lib = LibWs
    /\ SetWsRegistry(WsRemoveSubscription(WsRegistry, symbol, sub))
    /\ fanout' = << >>
    /\ UNCHANGED <<now, fetchVars, activePolling, chains, lastEmit, started, lib, updateInterval,
                   timers, ticks, sockets, http, resolved>>

(* the connection of a socket is established: readyState becomes OPEN (no onopen handler) *)
WsOpen(w) ==
    /\ lib = LibWs
    /\ webSockets[w].readyState = "CONNECTING"
    /\ webSockets' = [webSockets EXCEPT ![w].readyState = "OPEN"]
    /\ fanout' = << >>
    /\ UNCHANGED <<now, fetchVars, regVars, started, lib, activeSymbols, updateInterval, timers,
                   ticks, sockets, http, resolved, binanceWs, reconnects>>

(* the connection of a socket fails: the socket is closed, its error event runs onerror,
   its close event follows *)
WsError(w) ==
    /\ lib = LibWs
    /\ webSockets[w].readyState \in {"CONNECTING", "OPEN"}
    /\ SetWsRegistry(reconnectWebSocket(
           [WsRegistry EXCEPT !.webSockets[w].readyState = "CLOSED",
                              !.webSockets[w].closeEvent = TRUE]))
    /\ fanout' = << >>
    /\ UNCHANGED <<now, fetchVars, activePolling, chains, lastEmit, started, lib, updateInterval,
                   timers, ticks, sockets, http, resolved>>

(* the server closes an open connection: the close event of the socket follows *)
WsServerClose(w) ==
    /\ lib = LibWs
    /\ webSockets[w].readyState = "OPEN"
    /\ webSockets' = [webSockets EXCEPT ![w].readyState = "CLOSED", ![w].closeEvent = TRUE]
    /\ fanout' = << >>
    /\ UNCHANGED <<now, fetchVars, regVars, started, lib, activeSymbols, updateInterval, timers,
                   ticks, sockets, http, resolved, binanceWs, reconnects>>

(* the close event of a socket runs onclose *)
WsClose(w) ==
    /\ lib = LibWs
    /\ webSockets[w].closeEvent
    /\ SetWsRegistry(reconnectWebSocket([WsRegistry EXCEPT !.webSockets[w] = NoWebSocket]))
    /\ fanout' = << >>
    /\ UNCHANGED <<now, fetchVars, activePolling, chains, lastEmit, started, lib, updateInterval,
                   timers, ticks, sockets, http, resolved>>

(* an open socket receives the kline event of one of its streams: onmessage *)
WsMessage(w, symbol) ==
    /\ lib = LibWs
    /\ webSockets[w].readyState = "OPEN"
    /\ Has(webSockets[w].streams, StreamName(symbol))
    /\ fanout' = <<WsEmitMarketData(WsRegistry, symbol, WsMarketData(symbol))>>
    /\ UNCHANGED <<now, fetchVars, regVars, started, lib, activeSymbols, updateInterval, timers,
                   ticks, sockets, routeVars>>

(* a timer set by reconnectWebSocket fires: connectBinanceWebSocket() *)
WsTimer ==
    /\ lib = LibWs
    /\ reconnects > 0
    /\ SetWsRegistry(connectBinanceWebSocket([WsRegistry EXCEPT !.reconnects = @ - 1]))
    /\ fanout' = << >>
    /\ UNCHANGED <<now, fetchVars, activePolling, chains, lastEmit, started, lib, updateInterval,
                   timers, ticks, sockets, http, resolved>>

InitWs ==
    /\ now = 0
    /\ cache = << >>
    /\ calls = [id \in KlinesCallIds |-> IdleCall]
    /\ responseCache = << >>
    /\ mdCalls = [id \in MdCallIds |-> IdleCall]
    /\ subscriptions = << >>
    /\ activePolling = {}
    /\ chains = [ch \in ChainIds |-> FreeChain]
    /\ lastEmit = NoEmit
    /\ started = 0
    /\ lib = LibWs
    /\ activeSymbols = << >>
    /\ updateInterval = NoTimer
    /\ timers = {}
    /\ ticks = [k \in TickIds |-> FreeTick]
    /\ fanout = << >>
    /\ sockets = << >>
    /\ http = [id \in RouteIds |-> IdleRequest]
    /\ resolved = NoResolution
    /\ binanceWs = NoSocket
    /\ webSockets = [w \in WsIds |-> NoWebSocket]
    /\ reconnects = 0

(* the Binance registry with an upstream that may fail or close a connection *)
NextWs ==
    \/ \E symbol \in WsSymbols, sub \in Subs : WsAdd(symbol, sub)
    \/ \E symbol \in WsSymbols, sub \in Subs : WsRemove(symbol, sub)
    \/ \E w \in WsIds : WsOpen(w)
    \/ \E w \in WsIds : WsError(w)
    \/ \E w \in WsIds : WsServerClose(w)
    \/ \E w \in WsIds : WsClose(w)
    \/ \E w \in WsIds, symbol \in WsSymbols : WsMessage(w, symbol)
    \/ WsTimer

SpecWs == InitWs /\ [][NextWs]_vars

(* the sockets that are connecting or open: their onmessage can still run *)
LiveSockets == { w \in WsIds : webSockets[w].readyState \in {"CONNECTING", "OPEN"} }

(* C40 -- Single upstream connection: over any sequence of addSubscription,
   removeSubscription, socket open, error and close events and reconnect timers, at most
   one WebSocket that can still emit to the listeners is connecting or open, so that no
   kline event of the upstream reaches a listener over two sockets. *)
C40_SingleUpstreamSocket == Cardinality(LiveSockets) <= 1

(* the Binance registry with a healthy upstream and the scheduling of the event loop:
   a connection that is being established opens, a pending close event is dispatched, a
   reconnect timer fires *)
NextWsLive ==
    \/ \E symbol \in WsSymbols, sub \in Subs : WsAdd(symbol, sub)
    \/ \E symbol \in WsSymbols, sub \in Subs : WsRemove(symbol, sub)
    \/ \E w \in WsIds : WsOpen(w)
    \/ \E w \in WsIds : WsClose(w)
    \/ \E w \in WsIds, symbol \in WsSymbols : WsMessage(w, symbol)
    \/ WsTimer

WsFairness ==
    /\ WF_vars(WsTimer)
    /\ \A w \in WsIds : WF_vars(WsOpen(w)) /\ WF_vars(WsClose(w))

SpecWsLive == InitWs /\ [][NextWsLive]_vars /\ WsFairness

(* the socket is open and its URL holds the stream of the symbol *)
Carries(w, symbol) ==
    webSockets[w].readyState = "OPEN" /\ Has(webSockets[w].streams, StreamName(symbol))

(* the socket is open, it is the one in binanceWs, and nothing is under way that would
   replace it: no other socket has an event left and no reconnect timer is pending *)
OpenAndStable(w) ==
    /\ binanceWs = w
    /\ webSockets[w].readyState = "OPEN"
    /\ reconnects = 0
    /\ \A other \in WsIds \ {w} : webSockets[other] = NoWebSocket

(* C39 -- Binance stream coverage: a symbol that is active is eventually carried by an
   open upstream connection (unless it stops being active), also when a connection was
   already open when addSubscription made it active; and whenever a connection is open
   and stable its streams cover every active symbol. *)
C39_StreamCoverage ==
    /\ \A symbol \in WsSymbols :
          Has(activeSymbols, symbol)
              ~> (~Has(activeSymbols, symbol) \/ \E w \in WsIds : Carries(w, symbol))
    /\ [](\A w \in WsIds :
             OpenAndStable(w) => \A symbol \in Members(activeSymbols) : Carries(w, symbol))

----------------------------------------------------------------------------
(* The compiled registry over an unbounded run.  The library uses the clock only through
   differences (Date.now() - timestamp, a delay from the present), so time is measured
   here from the present instant: `now` stays 0 and the passage of d milliseconds takes d
   from the firing time of every pending timer and from the timestamp of every cache
   entry.  A timer that is overdue is due (0), and an entry older than CACHE_TTL is
   expired whatever its age (-CACHE_TTL). *)

HalfPeriod == POLL_INTERVAL \div 2

Later(t, d, least) == IF t - d < least THEN least ELSE t - d

(* half a poll period passes; the healthy upstream has answered every request by then *)
JsElapse ==
    /\ lib = LibJs
    /\ \A k \in TickIds : ticks[k].pc = "free"
    /\ timers' = { [tm EXCEPT !.dueAt = Later(@, HalfPeriod, 0)] : tm \in timers }
    /\ cache' = [key \in DOMAIN cache |->
                    [cache[key] EXCEPT !.timestamp = Later(@, HalfPeriod, 0 - CACHE_TTL)]]
    /\ fanout' = << >>
    /\ UNCHANGED <<now, calls, responseCache, mdCalls, regVars, started, lib, activeSymbols,
                   updateInterval, ticks, sockets, routeVars>>

(* the upstream is healthy: every request of a poll is answered with a candle *)
HealthyResponses ==
    { r \in Responses : ~r.rejects /\ r.status = 200 /\ r.body.parses /\ r.body.success
                        /\ r.body.hasData /\ r.body.items = ItemsA }

NextJsForever ==
    \/ \E symbol \in JsSymbols, sub \in Subs : JsAdd(symbol, sub)
    \/ \E symbol \in JsSymbols, sub \in Subs : JsRemove(symbol, sub)
    \/ \E id \in TimerIds : IntervalFire(id, NoFault)
    \/ \E k \in TickIds, resp \in HealthyResponses : TickRespond(k, resp, NoFault)
    \/ JsElapse

(* time goes on, a due timer fires, a request is answered *)
ForeverFairness ==
    /\ WF_vars(JsElapse)
    /\ WF_vars(\E id \in TimerIds : IntervalFire(id, NoFault))
    /\ \A k \in TickIds : WF_vars(\E resp \in HealthyResponses : TickRespond(k, resp, NoFault))

SpecJsForever == InitJs /\ [][NextJsForever]_vars /\ ForeverFairness

(* the step ended a poll of the symbol that handed a candle to its listeners *)
Delivered(symbol) ==
    \E i \in 1..Len(fanout) :
        fanout[i].symbol = symbol /\ fanout[i].status = "emitted" /\ Len(fanout[i].got) > 0

(* C33 -- Poll progress: with a healthy upstream, a supported symbol that has a listener
   and keeps one is eventually polled and its listeners receive a candle, whatever
   addSubscription calls and last-listener removals of other symbols occur meanwhile,
   also when they keep occurring less than one 30-second period apart. *)
C33_PollProgress ==
    \A symbol \in { s \in JsSymbols : getTokenAddress(s) # null } :
        (symbol \in DOMAIN subscriptions)
            ~> (symbol \notin DOMAIN subscriptions \/ Delivered(symbol))

====
